---- MODULE Spec2Model ----
(***************************************************************************)
(* Model of the fetch-with-retry pipeline of investment-analyser-config:   *)
(*   - the retry decorator (stocks/stock_retry.py, scraper/export_stocks)  *)
(*   - the single-pass batch runner   (stocks/export.py)                   *)
(*   - the multi-round batch runner   (stocks/export_all.py)               *)
(* An exception is a non-empty sequence of [type, msg] records: the head   *)
(* is the exception itself, the tail its __cause__/__context__ chain, the  *)
(* last element the deepest origin.  A message is a sequence of tokens.    *)
(***************************************************************************)
EXTENDS Integers, Sequences, FiniteSets, TLC

VARIABLES
    \* ---- retry wrapper (one call of a decorated function)
    r_pc,          \* "idle" | "loop" | "except" | "returned" | "raised" | "propagated"
    r_variant,     \* "stocks" (stock_retry.retry) | "scraper" (export_stocks.retry)
    r_max,         \* max_retries
    r_attempt,     \* kwargs.get("attempt", 0)
    r_jitter,      \* jitter flag
    r_max_delay,   \* max_delay, in tenths of a second
    r_errtype,     \* type of the exception the operation raises when it fails
    r_op,          \* the wrapped operation: [always |-> BOOLEAN, fails |-> Nat]
    r_internal,    \* loop variable of range(max_retries)
    r_calls,       \* invocations of func so far
    r_sleeps,      \* time.sleep calls so far
    r_delay,       \* argument of the last time.sleep, in tenths of a second
    r_base,        \* its part without jitter (curr_delay after min), in tenths
    r_prev_base,   \* r_base of the sleep before the last one
    r_e,           \* exception bound by "except Exception as e" (<<>> when unbound)
    r_op_last,     \* the last exception the operation raised (<<>> when none)
    r_ret,         \* value returned by the wrapper (<<>> when none)
    r_exc,         \* exception raised by the wrapper (<<>> when none)
    \* ---- batch runners
    b_entry,       \* "export" (export.py) | "export_all" (export_all.py)
    b_pc,          \* "idle" | "start" | "round" | "collect" | "unwinding" | "write" | "done" | "raised"
    b_tickers,     \* the input list
    b_max_workers, \* max_workers as passed by the caller
    b_prov,        \* provider behaviour per symbol
    b_round,       \* global_attempt (export_all), 0 in export
    b_max_rounds,  \* max_global_retries (export_all)
    b_workers,     \* size of the pool in use
    b_remaining,   \* export_all: set of symbols to submit
    b_futures,     \* task id -> [ticker, state, outcome]
    b_collected,   \* task ids already yielded by as_completed
    b_results,     \* export: the list results
    b_resdict,     \* export_all: the dict results, ticker -> record
    b_errors,      \* dict ticker -> message
    b_exc,         \* exception escaping the runner (<<>> when none)
    b_log,         \* lines written to the error log
    b_peak,        \* largest number of fetches that ran at the same time
    b_submits,     \* per round: the symbols submitted, one entry per task
    \* ---- worker schedule of export_all, taken alone
    s_pc, s_max_workers, s_round, s_workers, s_prev,
    \* ---- the fetch of one symbol
    f_entry,       \* "detailed" | "ticker" | "none"
    f_pc,          \* "history" | "download" | "info" | "calendar" | "dividends"
                   \* | "compute" | "write" | "assembled" | "failed" | "idle"
    f_ticker,      \* the symbol
    f_calls,       \* per provider call: invocations of its function so far
    f_reqs,        \* provider requests made by the last invocation
    f_ok,          \* the provider calls that have returned
    f_raw,         \* raw_data / csv_data: the dates of the rows
    f_info,        \* info
    f_calendar,    \* calendar
    f_dividends,   \* dividends: the dates of the rows
    f_metrics,     \* per metric, the number of rows it was computed from
    f_record,      \* ticker_dict / result
    f_file,        \* content of {ticker}.json
    f_funds,       \* funds_data of the ticker object, as the holdings calls met it
    f_exc,         \* the exception that left the fetch
    \* ---- a metric function applied to its arguments
    m_pc,          \* "input" | "done" | "idle"
    m_fn,          \* the function
    m_in,          \* its arguments
    m_out,         \* what it returned
    \* ---- the sequential exporter (export_stocks.export_ticker_data)
    q_pc,          \* "loop" | "returned" | "exited" | "idle"
    q_tickers,     \* the input list
    q_prov,        \* provider behaviour per symbol
    q_order,       \* the symbols of the iterations run so far, in order
    q_saved,       \* the symbols whose file was saved, in order
    q_log,         \* the lines appended to the error log: <<ticker, message>>
    q_any_errors,  \* any_errors
    q_status       \* exit status of sys.exit (0 while none)

retry_vars == <<r_pc, r_variant, r_max, r_attempt, r_jitter, r_max_delay,
                r_errtype, r_op, r_internal, r_calls, r_sleeps, r_delay, r_base,
                r_prev_base, r_e, r_op_last, r_ret, r_exc>>
batch_vars == <<b_entry, b_pc, b_tickers, b_max_workers, b_prov, b_round,
                b_max_rounds, b_workers, b_remaining, b_futures, b_collected,
                b_results, b_resdict, b_errors, b_exc, b_log, b_peak, b_submits>>
sched_vars == <<s_pc, s_max_workers, s_round, s_workers, s_prev>>
fetch_vars == <<f_entry, f_pc, f_ticker, f_calls, f_reqs, f_ok, f_raw, f_info,
                f_calendar, f_dividends, f_metrics, f_record, f_file, f_funds,
                f_exc>>
metric_vars == <<m_pc, m_fn, m_in, m_out>>
seq_vars == <<q_pc, q_tickers, q_prov, q_order, q_saved, q_log, q_any_errors,
              q_status>>
vars == <<retry_vars, batch_vars, sched_vars, fetch_vars, metric_vars, seq_vars>>

\* ------------------------------------------------------------------ bounds
MaxRetriesBound == 5
MaxExternalAttempt == 3

\* ------------------------------------------------------------- exceptions
None == <<>>

\* raise T(msg) outside any handler: no __context__
Raise(type, msg) == << [type |-> type, msg |-> msg] >>

\* raise T(msg) while handling e: __context__ = e
RaiseWhileHandling(type, msg, e) == << [type |-> type, msg |-> msg] >> \o e

\* str(e)
Str(e) == e[1].msg

\* msg holds the tokens of m, in order and adjacent
Contains(msg, m) ==
    \E i \in 0..(Len(msg) - Len(m)) : SubSeq(msg, i + 1, i + Len(m)) = m

\* ---------------------------------------------------------- retry wrapper
\* the k-th invocation (k = 1, 2, ...) of the wrapped operation fails
OpFails(op, k) == op.always \/ k <= op.fails

\* what the k-th invocation raises / returns
OpException(type, k) == Raise(type, <<"underlying failure", ToString(k)>>)
OpValue(k) == <<"value", ToString(k)>>

\* for internal_retry in range(max_retries)
RetryLoopOffByOne(internal, max_retries) == internal <= max_retries
RetryLoopContinues(internal, max_retries) == internal < max_retries

\* RuntimeError(f"X {func.__name__} failed after {max_retries} retries.")
TerminalMessage(func, max_retries) ==
    <<"X", func, "failed after", ToString(max_retries), "retries.">>

\* the raise after the loop: it stands outside the except block, where e is
\* no longer bound and no exception is being handled
TerminalError(func, max_retries) ==
    Raise("RuntimeError", TerminalMessage(func, max_retries))

\* tenths of a second; 0.9 * (a * (a + 1)) // 2, then min with max_delay
MaxDelayTenths == 600
ScraperDelayTenths == 10
JitterTenths == {1, 2, 3, 4, 5}
BaseDelayTenths(attempt) == 10 * ((9 * attempt * (attempt + 1)) \div 20)
Min(a, b) == IF a <= b THEN a ELSE b
Max(a, b) == IF a >= b THEN a ELSE b
\* curr_delay = min(curr_delay, max_delay); the scraper sleeps delay
CappedDelay(variant, attempt, max_delay) ==
    IF variant = "scraper" THEN ScraperDelayTenths
    ELSE Min(BaseDelayTenths(attempt), max_delay)

\* if jitter: curr_delay += random.uniform(0.1, 0.5), after the min
CurrDelays(variant, attempt, jitter, max_delay) ==
    IF variant = "stocks" /\ jitter
    THEN {CappedDelay(variant, attempt, max_delay) + j : j \in JitterTenths}
    ELSE {CappedDelay(variant, attempt, max_delay)}

\* the values of max_delay a decorated function is given
MaxDelayChoices == {0, 20, MaxDelayTenths}

\* the exceptions an operation raises: a provider failure, a programming error
ErrorTypes == {"ValueError", "TypeError"}

\* except Exception as e: every exception type is caught
Caught(type) == TRUE

\* where the wrapper stands after one invocation of func
AfterInvokeRetryingSuccess(failed, type) == "except"
AfterInvoke(failed, type) ==
    IF ~failed THEN "returned"
    ELSE IF Caught(type) THEN "except" ELSE "propagated"

RetryIdle ==
    /\ r_pc = "idle" /\ r_variant = "stocks" /\ r_max = 0 /\ r_attempt = 0
    /\ r_jitter = FALSE /\ r_op = [always |-> FALSE, fails |-> 0]
    /\ r_max_delay = 0 /\ r_errtype = "ValueError"
    /\ r_internal = 0 /\ r_calls = 0 /\ r_sleeps = 0 /\ r_delay = 0
    /\ r_base = 0 /\ r_prev_base = 0
    /\ r_e = None /\ r_op_last = None /\ r_ret = None /\ r_exc = None

\* wrapper(*args, **kwargs) entered
InitRetryVars ==
    /\ r_pc = "loop"
    /\ r_variant \in {"stocks", "scraper"}
    /\ r_max \in 0..MaxRetriesBound
    /\ r_attempt \in IF r_variant = "stocks" THEN 0..MaxExternalAttempt ELSE {0}
    /\ r_jitter \in IF r_variant = "stocks" THEN BOOLEAN ELSE {FALSE}
    /\ r_max_delay \in IF r_variant = "stocks" THEN MaxDelayChoices ELSE {0}
    /\ r_errtype \in ErrorTypes
    /\ r_op \in [always : {TRUE}, fails : {0}]
                  \cup [always : {FALSE}, fails : 0..(MaxRetriesBound + 1)]
    /\ r_internal = 0 /\ r_calls = 0 /\ r_sleeps = 0 /\ r_delay = 0
    /\ r_base = 0 /\ r_prev_base = 0
    /\ r_e = None /\ r_op_last = None /\ r_ret = None /\ r_exc = None

\* try: return func(*args, **kwargs) / except Exception as e:
RetryInvoke ==
    /\ r_pc = "loop"
    /\ RetryLoopContinues(r_internal, r_max)
    /\ r_calls' = r_calls + 1
    /\ r_pc' = AfterInvoke(OpFails(r_op, r_calls + 1), r_errtype)
    /\ IF OpFails(r_op, r_calls + 1)
       THEN /\ r_e' = OpException(r_errtype, r_calls + 1)
            /\ r_op_last' = OpException(r_errtype, r_calls + 1)
            /\ r_ret' = r_ret
       ELSE /\ r_ret' = OpValue(r_calls + 1)
            /\ UNCHANGED <<r_e, r_op_last>>
    /\ r_exc' = IF r_pc' = "propagated" THEN r_e' ELSE r_exc
    /\ UNCHANGED <<r_variant, r_max, r_attempt, r_jitter, r_max_delay, r_errtype,
                   r_op, r_internal, r_sleeps, r_delay, r_base, r_prev_base>>

\* the except block: compute the delay, sleep, leave the block (e is unbound)
RetrySleep ==
    /\ r_pc = "except"
    /\ \E d \in CurrDelays(r_variant, r_attempt, r_jitter, r_max_delay) :
           r_delay' = d
    /\ r_base' = CappedDelay(r_variant, r_attempt, r_max_delay)
    /\ r_prev_base' = r_base
    /\ r_sleeps' = r_sleeps + 1
    /\ r_internal' = r_internal + 1
    /\ r_e' = None
    /\ r_pc' = "loop"
    /\ UNCHANGED <<r_variant, r_max, r_attempt, r_jitter, r_max_delay, r_errtype,
                   r_op, r_calls, r_op_last, r_ret, r_exc>>

\* range exhausted: raise RuntimeError(...)
RetryExhausted ==
    /\ r_pc = "loop"
    /\ ~RetryLoopContinues(r_internal, r_max)
    /\ r_exc' = TerminalError("func", r_max)
    /\ r_pc' = "raised"
    /\ UNCHANGED <<r_variant, r_max, r_attempt, r_jitter, r_max_delay, r_errtype,
                   r_op, r_internal, r_calls, r_sleeps, r_delay, r_base,
                   r_prev_base, r_e, r_op_last, r_ret>>

NextRetry ==
    \/ RetryInvoke /\ UNCHANGED <<batch_vars, sched_vars, fetch_vars, metric_vars, seq_vars>>
    \/ RetrySleep /\ UNCHANGED <<batch_vars, sched_vars, fetch_vars, metric_vars, seq_vars>>
    \/ RetryExhausted /\ UNCHANGED <<batch_vars, sched_vars, fetch_vars, metric_vars, seq_vars>>

\* the wrapper as a function of the operation: how the loop of RetryInvoke,
\* RetrySleep and RetryExhausted ends (what the operation raises is not kept)
RECURSIVE WrapperLoop(_, _, _, _)
WrapperLoop(func, max_retries, op, internal) ==
    IF RetryLoopContinues(internal, max_retries)
    THEN IF OpFails(op, internal + 1)
         THEN WrapperLoop(func, max_retries, op, internal + 1)
         ELSE [kind |-> "return", exc |-> None]
    ELSE [kind |-> "raise", exc |-> TerminalError(func, max_retries)]
Wrapper(func, max_retries, op) == WrapperLoop(func, max_retries, op, 0)

\* ------------------------------------------------------------ the provider
Symbols == {"A", "B"}

\* per symbol: every call succeeds ("ok"), one call fails on every attempt
\* (named by the call), or the history call fails on some fetches ("flaky")
ProviderBehaviours == {"ok", "history", "info", "calendar", "dividends", "flaky"}
AlwaysFails(p) == p \in {"history", "info", "dividends"}
AlwaysSucceeds(p) == p \in {"ok", "calendar"}

\* the message M of the provider's failure
ProviderMessage(call) == <<"provider failure in", call>>
ProviderException(call) == Raise("ConnectionError", ProviderMessage(call))

\* @retry(max_retries=5, delay=2, backoff=2, jitter=True)
StockMaxRetries == 5
ProviderOp(p, call) == [always |-> (p = call), fails |-> 0]
RetryCall(func, p, call) == Wrapper(func, StockMaxRetries, ProviderOp(p, call))

\* ------------------------------------------------------------- the fetcher
PyNone == [none |-> TRUE]
Returned(v) == [kind |-> "return", value |-> v, exc |-> None]
Raised(e) == [kind |-> "raise", value |-> PyNone, exc |-> e]
Pending == [kind |-> "pending", value |-> PyNone, exc |-> None]

\* except Exception as e: raise RuntimeError(f"Failed to fetch {ticker}: {str(e)}")
FailedToFetch(ticker, e) ==
    RaiseWhileHandling("RuntimeError", <<"Failed to fetch", ticker, ":">> \o Str(e), e)

\* fetch_ticker_detailed for one behaviour of the provider
FetchDetailedRun(ticker, p) ==
    LET history == RetryCall("fetch_history", p, "history")
        info == RetryCall("fetch_info", p, "info")
        dividends == RetryCall("fetch_dividends", p, "dividends")
    IN  IF history.kind = "raise" THEN Raised(FailedToFetch(ticker, history.exc))
        ELSE IF info.kind = "raise" THEN Raised(FailedToFetch(ticker, info.exc))
        \* a failing fetch_calendar is caught: calendar = {}
        ELSE IF dividends.kind = "raise"
             THEN Raised(FailedToFetch(ticker, dividends.exc))
        ELSE Returned(PyNone)

\* fetch_ticker: the dict it returns has no key "error"
TickerRecord(ticker) == [ticker |-> ticker]
FetchTickerRun(ticker, p) ==
    LET history == RetryCall("fetch_history", p, "history")
        info == RetryCall("fetch_info", p, "info")
        dividends == RetryCall("fetch_dividends", p, "dividends")
    IN  IF history.kind = "raise" THEN Raised(FailedToFetch(ticker, history.exc))
        ELSE IF info.kind = "raise" THEN Raised(FailedToFetch(ticker, info.exc))
        ELSE IF dividends.kind = "raise"
             THEN Raised(FailedToFetch(ticker, dividends.exc))
        ELSE Returned(TickerRecord(ticker))

\* the behaviours one fetch of a symbol can meet
Meets(p) == IF p = "flaky" THEN {"ok", "history"} ELSE {p}

\* def fetch_ticker(ticker): one positional parameter
FetchTickerParams == 1
FetchTickerTypeError ==
    Raise("TypeError", <<"fetch_ticker() takes 1 positional argument but 2 were given">>)

\* executor.submit(StockFetcher.fetch_ticker_detailed, ticker, output_dir)
ExportTask(ticker, p) == {FetchDetailedRun(ticker, q) : q \in Meets(p)}

\* executor.submit(StockFetcher.fetch_ticker, t, global_attempt): two arguments
ExportAllSubmitArgs == 2
ExportAllTask(ticker, p) ==
    IF ExportAllSubmitArgs # FetchTickerParams THEN {Raised(FetchTickerTypeError)}
    ELSE {FetchTickerRun(ticker, q) : q \in Meets(p)}

\* StockUtils.get_root_error_message(e): the message of the deepest exception
\* of the cause/context chain
get_root_error_message(e) == e[Len(e)].msg

\* ------------------------------------------------------- the batch runners
MaxTickers == 3
MaxWorkersRun == 2
MaxRoundsBound == 3

\* argparse default of --max-workers
DefaultMaxWorkers == 20

\* export_all.export_ticker: min_workers = 10, decay_rate = 0.2, so
\* factor = 0.8 ** (global_attempt - 1) and
\* current_workers = max(int(max_workers * factor), min_workers)
min_workers == 10
RECURSIVE Pow(_, _)
Pow(b, n) == IF n = 0 THEN 1 ELSE b * Pow(b, n - 1)
current_workers_growing(max_workers, global_attempt) ==
    Max((max_workers * Pow(5, global_attempt + 1)) \div Pow(4, global_attempt + 1),
        min_workers)
current_workers(max_workers, global_attempt) ==
    IF global_attempt = 0
    THEN Max((max_workers * 5) \div 4, min_workers)
    ELSE Max((max_workers * Pow(4, global_attempt - 1))
                 \div Pow(5, global_attempt - 1), min_workers)

SeqsUpTo(S, n) == UNION {[1..k -> S] : k \in 0..n}
Range(f) == {f[x] : x \in DOMAIN f}
EmptyDict == [t \in {} |-> PyNone]
DictSet(d, k, v) == [x \in DOMAIN d \cup {k} |-> IF x = k THEN v ELSE d[x]]
DictGet(d, k, default) == IF k \in DOMAIN d THEN d[k] ELSE default

\* the orders in which a set can be iterated
Orders(S) == {q \in [1..Cardinality(S) -> S] : Range(q) = S}

NewFuture(ticker) == [ticker |-> ticker, state |-> "queued", outcome |-> Pending]
\* the tasks a thread of the pool is running; "writing": the task stands in
\* "with open(output_path, "w") as f" of fetch_ticker_detailed
Running == {i \in DOMAIN b_futures : b_futures[i].state \in {"running", "writing"}}
Writing == {i \in DOMAIN b_futures : b_futures[i].state = "writing"}
Queued == {i \in DOMAIN b_futures : b_futures[i].state = "queued"}
AllDone == \A i \in DOMAIN b_futures : b_futures[i].state = "done"

BatchIdle ==
    /\ b_entry = "none" /\ b_pc = "idle" /\ b_tickers = <<>> /\ b_max_workers = 0
    /\ b_prov = [t \in Symbols |-> "ok"] /\ b_round = 0 /\ b_max_rounds = 0
    /\ b_workers = 0 /\ b_remaining = {} /\ b_futures = <<>> /\ b_collected = {}
    /\ b_results = <<>> /\ b_resdict = EmptyDict /\ b_errors = EmptyDict
    /\ b_exc = None /\ b_log = {} /\ b_peak = 0 /\ b_submits = <<>>

\* the state on entry of a runner: results = [] / {}, errors = {}
InitBatchVars(entry) ==
    /\ b_entry = entry
    /\ b_tickers \in SeqsUpTo(Symbols, MaxTickers)
    /\ b_prov \in [Symbols -> ProviderBehaviours]
    /\ \A t \in Symbols \ Range(b_tickers) : b_prov[t] = "ok"
    /\ b_round = 0 /\ b_workers = 0
    /\ b_futures = <<>> /\ b_collected = {}
    /\ b_results = <<>> /\ b_resdict = EmptyDict /\ b_errors = EmptyDict
    /\ b_exc = None /\ b_log = {} /\ b_peak = 0 /\ b_submits = <<>>

InitExportVars ==
    /\ InitBatchVars("export")
    /\ b_pc = "start"
    /\ b_max_workers \in 1..MaxWorkersRun
    /\ b_max_rounds = 0
    /\ b_remaining = {}

\* remaining = set(tickers)
InitExportAllVars ==
    /\ InitBatchVars("export_all")
    /\ b_pc = "round"
    /\ b_max_workers \in (1..MaxWorkersRun) \cup {DefaultMaxWorkers}
    /\ b_max_rounds \in 0..MaxRoundsBound
    /\ b_remaining = Range(b_tickers)

\* ---- the pool (ThreadPoolExecutor): work items start in submission order,
\* at most b_workers at a time
WorkerStart(i) ==
    /\ b_pc \in {"collect", "unwinding"}
    /\ i \in Queued
    /\ \A j \in Queued : i <= j
    /\ Cardinality(Running) < b_workers
    /\ b_futures' = [b_futures EXCEPT ![i].state = "running"]
    /\ b_peak' = Max(b_peak, Cardinality(Running) + 1)
    /\ UNCHANGED <<b_entry, b_pc, b_tickers, b_max_workers, b_prov, b_round,
                   b_max_rounds, b_workers, b_remaining, b_collected, b_results,
                   b_resdict, b_errors, b_exc, b_log, b_submits>>

TaskOutcomes(entry, ticker, p) ==
    IF entry = "export" THEN ExportTask(ticker, p) ELSE ExportAllTask(ticker, p)

\* a task of export.py whose provider calls have returned opens its output
\* file: with open(os.path.join(output_dir, f"{ticker}.json"), "w") as f
WorkerOpen(i) ==
    /\ b_entry = "export" /\ b_pc \in {"collect", "unwinding"}
    /\ i \in Running \ Writing
    /\ \E o \in TaskOutcomes(b_entry, b_futures[i].ticker, b_prov[b_futures[i].ticker]) :
           /\ o.kind = "return"
           /\ b_futures' = [b_futures EXCEPT ![i].state = "writing", ![i].outcome = o]
    /\ UNCHANGED <<b_entry, b_pc, b_tickers, b_max_workers, b_prov, b_round,
                   b_max_rounds, b_workers, b_remaining, b_collected, b_results,
                   b_resdict, b_errors, b_exc, b_log, b_peak, b_submits>>

\* the variant in which the task itself appends its symbol to results
WorkerFinishAppending(i) ==
    /\ b_pc \in {"collect", "unwinding"}
    /\ i \in Running
    /\ IF i \in Writing
       THEN /\ b_futures' = [b_futures EXCEPT ![i].state = "done"]
            /\ b_results' = Append(b_results, b_futures[i].ticker)
       ELSE /\ \E o \in TaskOutcomes(b_entry, b_futures[i].ticker,
                                     b_prov[b_futures[i].ticker]) :
                   /\ b_entry = "export" => o.kind = "raise"
                   /\ b_futures' = [b_futures EXCEPT ![i].state = "done",
                                                     ![i].outcome = o]
            /\ b_results' = b_results
    /\ UNCHANGED <<b_entry, b_pc, b_tickers, b_max_workers, b_prov, b_round,
                   b_max_rounds, b_workers, b_remaining, b_collected,
                   b_resdict, b_errors, b_exc, b_log, b_peak, b_submits>>

\* the task runs to its end (a task that has opened its file writes and
\* closes it); its outcome is kept in the future
WorkerFinish(i) ==
    /\ b_pc \in {"collect", "unwinding"}
    /\ i \in Running
    /\ IF i \in Writing
       THEN b_futures' = [b_futures EXCEPT ![i].state = "done"]
       ELSE \E o \in TaskOutcomes(b_entry, b_futures[i].ticker,
                                  b_prov[b_futures[i].ticker]) :
                /\ b_entry = "export" => o.kind = "raise"
                /\ b_futures' = [b_futures EXCEPT ![i].state = "done",
                                                  ![i].outcome = o]
    /\ UNCHANGED <<b_entry, b_pc, b_tickers, b_max_workers, b_prov, b_round,
                   b_max_rounds, b_workers, b_remaining, b_collected, b_results,
                   b_resdict, b_errors, b_exc, b_log, b_peak, b_submits>>

\* ---- export.export_ticker
\* futures = {executor.submit(...): ticker for ticker in tickers}
ExportSubmitted(tickers) == tickers

ExportSubmit ==
    /\ b_entry = "export" /\ b_pc = "start"
    /\ b_workers' = b_max_workers
    /\ b_futures' = [i \in DOMAIN ExportSubmitted(b_tickers) |->
                         NewFuture(ExportSubmitted(b_tickers)[i])]
    /\ b_submits' = Append(b_submits, ExportSubmitted(b_tickers))
    /\ b_pc' = "collect"
    /\ UNCHANGED <<b_entry, b_tickers, b_max_workers, b_prov, b_round,
                   b_max_rounds, b_remaining, b_collected, b_results, b_resdict,
                   b_errors, b_exc, b_log, b_peak>>

\* the variant that records an error only while errors is empty
ExportCollectFirstErrorOnly(i) ==
    /\ b_entry = "export" /\ b_pc = "collect"
    /\ i \in DOMAIN b_futures /\ i \notin b_collected
    /\ b_futures[i].state = "done"
    /\ b_collected' = b_collected \cup {i}
    /\ IF b_futures[i].outcome.kind = "return"
       THEN /\ b_results' = Append(b_results, b_futures[i].ticker)
            /\ b_errors' = b_errors
       ELSE /\ b_errors' = IF DOMAIN b_errors = {}
                           THEN DictSet(b_errors, b_futures[i].ticker,
                                        get_root_error_message(b_futures[i].outcome.exc))
                           ELSE b_errors
            /\ b_results' = b_results
    /\ UNCHANGED <<b_entry, b_pc, b_tickers, b_max_workers, b_prov, b_round,
                   b_max_rounds, b_workers, b_remaining, b_futures, b_resdict,
                   b_exc, b_log, b_peak, b_submits>>

\* one turn of "for future in as_completed(futures)"
ExportCollect(i) ==
    /\ b_entry = "export" /\ b_pc = "collect"
    /\ i \in DOMAIN b_futures /\ i \notin b_collected
    /\ b_futures[i].state = "done"
    /\ b_collected' = b_collected \cup {i}
    /\ IF b_futures[i].outcome.kind = "return"
       THEN /\ b_results' = Append(b_results, b_futures[i].ticker)
            /\ b_errors' = b_errors
       ELSE /\ b_errors' = DictSet(b_errors, b_futures[i].ticker,
                                   get_root_error_message(b_futures[i].outcome.exc))
            /\ b_results' = b_results
    /\ UNCHANGED <<b_entry, b_pc, b_tickers, b_max_workers, b_prov, b_round,
                   b_max_rounds, b_workers, b_remaining, b_futures, b_resdict,
                   b_exc, b_log, b_peak, b_submits>>

\* the lines "tkr: err" of the error log
LogLines(errors) == {<<t, errors[t]>> : t \in DOMAIN errors}

\* after the with block: if errors: write the log
ExportFinish ==
    /\ b_entry = "export" /\ b_pc = "collect"
    /\ b_collected = DOMAIN b_futures
    /\ b_log' = LogLines(b_errors)
    /\ b_pc' = "done"
    /\ UNCHANGED <<b_entry, b_tickers, b_max_workers, b_prov, b_round,
                   b_max_rounds, b_workers, b_remaining, b_futures, b_collected,
                   b_results, b_resdict, b_errors, b_exc, b_peak, b_submits>>

\* ---- export_all.export_ticker
\* failed = {t for t, r in results.items() if r.get("error", None) is not None}
FailedOf(results) ==
    {t \in DOMAIN results : DictGet(results[t], "error", PyNone) # PyNone}

\* for global_attempt in range(0, max_global_retries): another round is run
RoundsRemainOffByOne(global_attempt, max_global_retries) ==
    global_attempt <= max_global_retries
RoundsRemain(global_attempt, max_global_retries) ==
    global_attempt < max_global_retries

\* top of "for global_attempt in range(0, max_global_retries)": the pool of
\* current_workers threads is made and one task per symbol of remaining is
\* submitted; with the range used up the loop is left
ExportAllRound ==
    /\ b_entry = "export_all" /\ b_pc = "round"
    /\ IF RoundsRemain(b_round, b_max_rounds)
       THEN /\ b_workers' = current_workers(b_max_workers, b_round)
            /\ \E q \in Orders(b_remaining) :
                   /\ b_futures' = [i \in DOMAIN q |-> NewFuture(q[i])]
                   /\ b_submits' = Append(b_submits, q)
            /\ b_collected' = {}
            /\ b_pc' = "collect"
       ELSE /\ b_pc' = "write"
            /\ UNCHANGED <<b_workers, b_futures, b_submits, b_collected>>
    /\ UNCHANGED <<b_entry, b_tickers, b_max_workers, b_prov, b_round,
                   b_max_rounds, b_remaining, b_results, b_resdict, b_errors,
                   b_exc, b_log, b_peak>>

\* results[ticker] = future.result(), outside any try: a raising task ends
\* the loop and the exception leaves the with block
ExportAllCollect(i) ==
    /\ b_entry = "export_all" /\ b_pc = "collect"
    /\ i \in DOMAIN b_futures /\ i \notin b_collected
    /\ b_futures[i].state = "done"
    /\ b_collected' = b_collected \cup {i}
    /\ IF b_futures[i].outcome.kind = "return"
       THEN /\ b_resdict' = DictSet(b_resdict, b_futures[i].ticker,
                                    b_futures[i].outcome.value)
            /\ UNCHANGED <<b_exc, b_pc>>
       ELSE /\ b_exc' = b_futures[i].outcome.exc
            /\ b_pc' = "unwinding"
            /\ b_resdict' = b_resdict
    /\ UNCHANGED <<b_entry, b_tickers, b_max_workers, b_prov, b_round,
                   b_max_rounds, b_workers, b_remaining, b_futures, b_results,
                   b_errors, b_log, b_peak, b_submits>>

\* the with block is left by an exception: shutdown(wait=True) lets every
\* submitted task end, then export_ticker raises
ExportAllUnwind ==
    /\ b_entry = "export_all" /\ b_pc = "unwinding"
    /\ AllDone
    /\ b_pc' = "raised"
    /\ UNCHANGED <<b_entry, b_tickers, b_max_workers, b_prov, b_round,
                   b_max_rounds, b_workers, b_remaining, b_futures, b_collected,
                   b_results, b_resdict, b_errors, b_exc, b_log, b_peak, b_submits>>

\* the round is over: break when nothing failed, else remaining = failed
ExportAllEndRound ==
    /\ b_entry = "export_all" /\ b_pc = "collect"
    /\ b_collected = DOMAIN b_futures
    /\ IF FailedOf(b_resdict) = {}
       THEN /\ b_pc' = "write"
            /\ UNCHANGED <<b_remaining, b_round>>
       ELSE /\ b_remaining' = FailedOf(b_resdict)
            /\ b_round' = b_round + 1
            /\ b_pc' = "round"
    /\ UNCHANGED <<b_entry, b_tickers, b_max_workers, b_prov, b_max_rounds,
                   b_workers, b_futures, b_collected, b_results, b_resdict,
                   b_errors, b_exc, b_log, b_peak, b_submits>>

\* after the loop: the output file, and the log if errors
ExportAllWrite ==
    /\ b_entry = "export_all" /\ b_pc = "write"
    /\ b_log' = LogLines(b_errors)
    /\ b_pc' = "done"
    /\ UNCHANGED <<b_entry, b_tickers, b_max_workers, b_prov, b_round,
                   b_max_rounds, b_workers, b_remaining, b_futures, b_collected,
                   b_results, b_resdict, b_errors, b_exc, b_peak, b_submits>>

\* ---- the worker schedule of export_all over the rounds of its loop
MaxWorkersBound == 40
MaxScheduleRounds == 6

SchedIdle ==
    /\ s_pc = "idle" /\ s_max_workers = 0 /\ s_round = 0
    /\ s_workers = 0 /\ s_prev = 0

InitSchedVars ==
    /\ s_pc = "loop"
    /\ s_max_workers \in 1..MaxWorkersBound
    /\ s_round = 0 /\ s_workers = 0 /\ s_prev = 0

\* lines 25-26 for global_attempt = s_round
ScheduleRound ==
    /\ s_pc = "loop"
    /\ s_round < MaxScheduleRounds
    /\ s_workers' = current_workers(s_max_workers, s_round)
    /\ s_prev' = s_workers
    /\ s_round' = s_round + 1
    /\ UNCHANGED <<s_pc, s_max_workers>>

\* ------------------------------------------------------- specifications
\* ------------------------------------------------------ the metric functions
\* StockCalculator.  A float result is 0.0 or another number given in
\* hundredths ("value"), NaN ("nan"), or a non-zero number whose size is not
\* followed ("some").  Prices are positive integers.
MaxPrice == 3
MaxSeriesLen == 3
MaxAge == 6
MaxCagrPoints == 2
MaxDivs == 12
MaxDivYear == 2
MaxYield == 2

FValue(h) == [kind |-> "value", hundredths |-> h]
FZero == FValue(0)
FNaN == [kind |-> "nan", hundredths |-> 0]
FSome == [kind |-> "some", hundredths |-> 0]

\* values of a Python dict or argument: a number, a string, None
PyNum(n) == [t |-> "num", s |-> "", n |-> n]
PyStr(s) == [t |-> "str", s |-> s, n |-> 0]
PyNull == [t |-> "null", s |-> "", n |-> 0]

PriceSeries == SeqsUpTo(1..MaxPrice, MaxSeriesLen)

\* prices.pct_change().dropna(): the returns, as fractions
pct_change(prices) ==
    [i \in 1..(Len(prices) - 1) |->
        [num |-> prices[i + 1] - prices[i], den |-> prices[i]]]
FracEq(a, b) == a.num * b.den = b.num * a.den

\* Series.std() (ddof = 1): NaN below two values, 0.0 when all are equal
Std(xs) ==
    IF Len(xs) < 2 THEN FNaN
    ELSE IF \A i \in DOMAIN xs : FracEq(xs[i], xs[1]) THEN FZero
    ELSE FSome

\* calculate_volatility(raw_data, price_col)
calculate_volatility(prices) ==
    IF Len(prices) < 2 THEN FZero
    ELSE IF Len(pct_change(prices)) = 0 THEN FZero
    ELSE Std(pct_change(prices))

\* calculate_sharpe_ratio(raw_data, price_col): no guard on the length; with
\* std NaN the test "std == 0" is False and the quotient is NaN
calculate_sharpe_ratio(prices) ==
    IF Std(pct_change(prices)) = FZero THEN FZero
    ELSE IF Std(pct_change(prices)) = FNaN THEN FNaN
    ELSE FSome

\* prices.cummax() / the same with the running minimum
cummax(prices) ==
    [i \in DOMAIN prices |->
        CHOOSE m \in {prices[j] : j \in 1..i} : \A j \in 1..i : m >= prices[j]]

\* round(x * 100, 2) of x = n / d, in hundredths (no ties for these prices)
RoundHundredths(n, d) ==
    IF n >= 0 THEN (20000 * n + d) \div (2 * d)
    ELSE 0 - ((20000 * (0 - n) + d) \div (2 * d))

\* the variant that takes prices / cummax, the peak not subtracted
calculate_max_drawdown_of_ratio(prices) ==
    IF prices = <<>> THEN FNaN
    ELSE LET ratios == [i \in DOMAIN prices |->
                 RoundHundredths(prices[i], cummax(prices)[i])]
         IN  FValue(CHOOSE m \in Range(ratios) : \A x \in Range(ratios) : m <= x)

\* calculate_max_drawdown(csv_data, price_col)
calculate_max_drawdown(prices) ==
    IF prices = <<>> THEN FNaN
    ELSE LET drawdowns == [i \in DOMAIN prices |->
                 RoundHundredths(prices[i] - cummax(prices)[i], cummax(prices)[i])]
         IN  FValue(CHOOSE m \in Range(drawdowns) :
                        \A x \in Range(drawdowns) : m <= x)

\* the dividend dates by calendar year, oldest first, built from the number
\* of dividends of each year
RECURSIVE Repeat(_, _)
Repeat(x, n) == IF n = 0 THEN <<>> ELSE <<x>> \o Repeat(x, n - 1)
RECURSIVE YearsFrom(_, _)
YearsFrom(counts, y) ==
    IF y > MaxDivYear THEN <<>>
    ELSE Repeat(y, counts[y]) \o YearsFrom(counts, y + 1)
RECURSIVE Sum(_, _)
Sum(counts, y) == IF y > MaxDivYear THEN 0 ELSE counts[y] + Sum(counts, y + 1)
DividendYears ==
    {YearsFrom(c, 0) : c \in {d \in [0..MaxDivYear -> 0..MaxDivs] :
                                  Sum(d, 0) <= MaxDivs}}

\* calculate_dividend_frequency(divs): divs.groupby(divs.index.year).count()
\* has one entry per year that holds a dividend; its mean is
\* len(divs) / number of such years
calculate_dividend_frequency(divs) ==
    IF divs # <<>> /\ Len(divs) >= 2
    THEN LET total == Len(divs)
             years == Cardinality(Range(divs))
         IN  IF total >= 11 * years THEN "Monthly"
             ELSE IF 2 * total >= 7 * years THEN "Quarterly"
             ELSE IF total >= 2 * years THEN "Semi-Annually"
             ELSE IF total >= years THEN "Annually"
             ELSE "Irregular"
    ELSE "N/A"

\* rows of a price frame: date in whole years, price
CagrDates == 0..MaxAge
CagrSeries ==
    {s \in SeqsUpTo([date : CagrDates, price : 1..2], MaxCagrPoints) :
        \A i \in 1..(Len(s) - 1) : s[i].date < s[i + 1].date}

\* P(t) = P0 * (1 + r)^t with r = 100 %, one row per year from first to last
ExponentialSeries(first, last) ==
    [i \in 1..(last - first + 1) |->
        [date |-> first + i - 1, price |-> Pow(2, i - 1)]]
ExponentialInputs ==
    {ExponentialSeries(a, b) : a \in CagrDates, b \in CagrDates} \ {<<>>}

\* periods = {"1y": 1, "2y": 2, "5y": 5, "10y": 10, "15y": 15, "20y": 20}
periods == <<1, 2, 5, 10, 15, 20>>
ShortTerm == <<1, 2>>
LongTerm == <<5, 10, 15, 20>>

\* (end_price / start_price) ** (1 / years) - 1, kept as its three numbers
Cagr(start_price, end_price, years) ==
    [start |-> start_price, end |-> end_price, years |-> years]

\* historical = data[data.index <= start_date], start_date = today - 365 days
\* * years
Historical(data, today, years) ==
    SelectSeq(data, LAMBDA row : row.date <= today - years)

\* results[label] of the loop over periods
CagrResult(data, today, years) ==
    IF Historical(data, today, years) = <<>> THEN PyNone
    ELSE Cagr(Historical(data, today, years)
                  [Len(Historical(data, today, years))].price,
              data[Len(data)].price, years)

\* round(sum(values) / len(values), 2): the mean, kept as the values it is of
Average(values) == [mean_of |-> values]

\* combine(labels)
combine_none_as_zero(data, today, labels) ==
    Average([i \in DOMAIN labels |->
                IF CagrResult(data, today, labels[i]) = PyNone
                THEN Cagr(1, 1, labels[i])
                ELSE CagrResult(data, today, labels[i])])
combine(data, today, labels) ==
    LET values == SelectSeq([i \in DOMAIN labels |->
                                CagrResult(data, today, labels[i])],
                            LAMBDA v : v # PyNone)
    IN  IF values # <<>> THEN Average(values) ELSE PyNone

\* calculate_historical_short_and_long_term_cagr(data, price_col, today)
calculate_historical_short_and_long_term_cagr(data, today) ==
    IF data = <<>>
    THEN [shortTermCagr |-> PyNone, longTermCagr |-> PyNone]
    ELSE [shortTermCagr |-> combine(data, today, ShortTerm),
          longTermCagr |-> combine(data, today, LongTerm)]

\* the calendar: no dividend date, or one
EmptyCalendar == [dated |-> FALSE, date |-> 0]

\* calculate_upcoming_dividend(events, csv_data, price_col, div_yield): every
\* exception inside (events without get, no row, a yield that cannot be
\* compared with 0) is swallowed by the bare except
NoProjection == [projected |-> FALSE, date |-> 0, num |-> 0, den |-> 1]
calculate_upcoming_dividend_any_yield(events, csv_data, div_yield) ==
    IF events = PyNone \/ ~events.dated \/ csv_data = <<>> THEN NoProjection
    ELSE IF events.date >= csv_data[Len(csv_data)].date /\ div_yield.t = "num"
    THEN [projected |-> TRUE, date |-> events.date,
          num |-> div_yield.n * csv_data[Len(csv_data)].price, den |-> 400]
    ELSE NoProjection
calculate_upcoming_dividend(events, csv_data, div_yield) ==
    IF events = PyNone THEN NoProjection
    ELSE IF ~events.dated THEN NoProjection
    ELSE IF csv_data = <<>> THEN NoProjection
    ELSE IF events.date < csv_data[Len(csv_data)].date THEN NoProjection
    ELSE IF div_yield.t # "num" THEN NoProjection
    ELSE IF div_yield.n > 0
    THEN [projected |-> TRUE, date |-> events.date,
          num |-> div_yield.n * csv_data[Len(csv_data)].price, den |-> 400]
    ELSE NoProjection

\* the arguments the functions are applied to
UpcomingEvents ==
    {PyNone, EmptyCalendar} \cup {[dated |-> TRUE, date |-> d] : d \in 0..2}
UpcomingRows ==
    {<<>>} \cup {<<[date |-> d, price |-> p]>> : d \in 0..2, p \in 1..MaxPrice}
UpcomingYields ==
    {PyNull, PyStr("N/A")} \cup {PyNum(y) : y \in (0 - 1)..MaxYield}
MetricInputs(fn) ==
    CASE fn \in {"volatility", "sharpe", "drawdown"} -> PriceSeries
      [] fn = "cagr" ->
            [data : CagrSeries \cup ExponentialInputs, today : {MaxAge - 1, MaxAge}]
      [] fn = "dividend_frequency" -> DividendYears
      [] fn = "upcoming_dividend" ->
            [events : UpcomingEvents, csv_data : UpcomingRows,
             div_yield : UpcomingYields]
MetricFunctions ==
    {"volatility", "sharpe", "drawdown", "cagr", "dividend_frequency",
     "upcoming_dividend"}

MetricsIdle == m_pc = "idle" /\ m_fn = "none" /\ m_in = PyNone /\ m_out = PyNone
InitMetricsVars ==
    /\ m_pc = "input" /\ m_out = PyNone
    /\ m_fn \in MetricFunctions
    /\ m_in \in MetricInputs(m_fn)

Applied(fn, out) ==
    /\ m_pc = "input" /\ m_fn = fn
    /\ m_out' = out
    /\ m_pc' = "done"
    /\ UNCHANGED <<m_fn, m_in>>
CalcVolatility == Applied("volatility", calculate_volatility(m_in))
CalcSharpe == Applied("sharpe", calculate_sharpe_ratio(m_in))
CalcDrawdown == Applied("drawdown", calculate_max_drawdown(m_in))
CalcCagr ==
    Applied("cagr",
            calculate_historical_short_and_long_term_cagr(m_in.data, m_in.today))
CalcDividendFrequency ==
    Applied("dividend_frequency", calculate_dividend_frequency(m_in))
CalcUpcomingDividend ==
    Applied("upcoming_dividend",
            calculate_upcoming_dividend(m_in.events, m_in.csv_data, m_in.div_yield))

\* ------------------------------------- the fetch of one symbol, step by step
\* StockFetcher.fetch_ticker_detailed ("detailed") and fetch_ticker ("ticker")
MaxDay == 1
MaxPoints == 2

\* pd.Timestamp('1970-01-01') as a day number; len(info) < 5
EpochDay == 0
MinInfoKeys == 5

\* a price history: the dates of its rows (day numbers), oldest first
Days == (0 - MaxDay)..MaxDay
Ascending(h) == \A i \in 1..(Len(h) - 1) : h[i] < h[i + 1]
Histories == {h \in SeqsUpTo(Days, MaxPoints) : Ascending(h)}

\* what the provider answers to one request
ProviderRaise == [kind |-> "raise"]
HistoryResponses ==
    {ProviderRaise} \cup {[kind |-> "data", data |-> h] : h \in Histories}
\* info: len(info) and the attributes the fetch reads, each one absent, null
\* (None) or set
InfoKeys == {"quoteType", "currentPrice", "dividendYield", "totalAssets", "marketCap"}
InfoValues(key) ==
    CASE key = "quoteType" ->
             {PyStr("ETF"), PyStr("EQUITY"), PyStr("MUTUALFUND"), PyNull}
      [] key = "currentPrice" -> {PyNum(MaxPrice), PyNull}
      [] key = "dividendYield" -> {PyNum(MaxYield), PyNull}
      [] key = "totalAssets" -> {PyNum(1), PyNull}
      [] key = "marketCap" -> {PyNum(2), PyNull}
InfoDicts ==
    UNION {{d \in [S -> UNION {InfoValues(k) : k \in InfoKeys}] :
                \A k \in S : d[k] \in InfoValues(k)} : S \in SUBSET InfoKeys}
Info(keys, dict) == [keys |-> keys, dict |-> dict]
FundInfo(quoteType) ==
    Info(MinInfoKeys,
         [k \in InfoKeys \ {"currentPrice"} |->
             CASE k = "quoteType" -> quoteType
               [] k = "dividendYield" -> PyNum(MaxYield)
               [] k = "totalAssets" -> PyNum(1)
               [] k = "marketCap" -> PyNum(2)])
Infos ==
    {Info(0, EmptyDict),
     Info(MinInfoKeys - 1, [k \in {"quoteType"} |-> PyStr("EQUITY")])}
    \cup {FundInfo(q) : q \in {PyStr("ETF"), PyStr("EQUITY"), PyNull}}
InfoResponses ==
    {ProviderRaise} \cup {[kind |-> "data", data |-> i] : i \in Infos}
Calendars ==
    {EmptyCalendar} \cup {[dated |-> TRUE, date |-> d] : d \in {0 - MaxDay, MaxDay}}
CalendarResponses ==
    {ProviderRaise} \cup {[kind |-> "data", data |-> c] : c \in Calendars}
DividendSeries == {<<>>, <<0 - MaxDay, MaxDay>>}
DividendResponses ==
    {ProviderRaise} \cup {[kind |-> "data", data |-> d] : d \in DividendSeries}

\* funds_data of the ticker object: top_holdings is a DataFrame (the weight
\* of each row), another value, or a failure of the provider; sector_weightings
\* is a dict (its values), another value, or a failure
Frame(rows) == [kind |-> "frame", rows |-> rows]
Weights(values) == [kind |-> "dict", values |-> values]
FundsData ==
    {[top |-> ProviderRaise, sector |-> ProviderRaise],
     [top |-> [kind |-> "data", data |-> PyNone],
      sector |-> [kind |-> "data", data |-> PyNone]],
     [top |-> Frame(<<>>), sector |-> Weights(<<>>)],
     [top |-> Frame(<<PyNum(1)>>), sector |-> Weights(<<PyNum(0), PyNum(1)>>)],
     [top |-> Frame(<<PyNum(1)>>), sector |-> ProviderRaise],
     [top |-> Frame(<<PyNum(1), PyStr("n/a")>>),
      sector |-> Weights(<<PyNum(1), PyNull>>)]}

\* the retry-wrapped provider calls and their functions
FetchCalls == {"history", "info", "calendar", "dividends"}
FuncName(call) ==
    CASE call = "history" -> "fetch_history"
      [] call = "info" -> "fetch_info"
      [] call = "calendar" -> "fetch_calendar"
      [] call = "dividends" -> "fetch_dividends"

\* the variant that asks once more after an empty answer to '20y'
fetch_history_requerying(period, resp, y20_resp) ==
    IF resp.kind = "raise"
    THEN [reqs |-> 1, ok |-> FALSE, data |-> <<>>, exc |-> ProviderException("history")]
    ELSE IF resp.data # <<>>
    THEN [reqs |-> 1, ok |-> TRUE, data |-> resp.data, exc |-> None]
    ELSE IF y20_resp.kind = "raise"
    THEN [reqs |-> 2, ok |-> FALSE, data |-> <<>>, exc |-> ProviderException("history")]
    ELSE IF y20_resp.data = <<>>
    THEN [reqs |-> 3, ok |-> FALSE, data |-> <<>>,
          exc |-> Raise("ValueError", <<"No historical data found for ticker.">>)]
    ELSE [reqs |-> 2, ok |-> TRUE, data |-> y20_resp.data, exc |-> None]

\* the variant that asks for '20y' after an empty answer whatever the period
fetch_history_any_period(period, resp, y20_resp) ==
    IF resp.kind = "raise"
    THEN [reqs |-> 1, ok |-> FALSE, data |-> <<>>, exc |-> ProviderException("history")]
    ELSE IF resp.data # <<>>
    THEN [reqs |-> 1, ok |-> TRUE, data |-> resp.data, exc |-> None]
    ELSE IF y20_resp.kind = "raise"
    THEN [reqs |-> 2, ok |-> FALSE, data |-> <<>>, exc |-> ProviderException("history")]
    ELSE IF y20_resp.data = <<>>
    THEN [reqs |-> 2, ok |-> FALSE, data |-> <<>>,
          exc |-> Raise("ValueError", <<"No historical data found for ticker.">>)]
    ELSE [reqs |-> 2, ok |-> TRUE, data |-> y20_resp.data, exc |-> None]

\* one invocation of fetch_history(ticker_obj, period): data = history(period);
\* when it is empty and period is 'max', history(period='20y'); still empty:
\* ValueError.  resp answers the first request, y20_resp the second
fetch_history(period, resp, y20_resp) ==
    IF resp.kind = "raise"
    THEN [reqs |-> 1, ok |-> FALSE, data |-> <<>>, exc |-> ProviderException("history")]
    ELSE IF resp.data # <<>>
    THEN [reqs |-> 1, ok |-> TRUE, data |-> resp.data, exc |-> None]
    ELSE IF period # "max"
    THEN [reqs |-> 1, ok |-> FALSE, data |-> <<>>,
          exc |-> Raise("ValueError", <<"No historical data found for ticker.">>)]
    ELSE IF y20_resp.kind = "raise"
    THEN [reqs |-> 2, ok |-> FALSE, data |-> <<>>, exc |-> ProviderException("history")]
    ELSE IF y20_resp.data = <<>>
    THEN [reqs |-> 2, ok |-> FALSE, data |-> <<>>,
          exc |-> Raise("ValueError", <<"No historical data found for ticker.">>)]
    ELSE [reqs |-> 2, ok |-> TRUE, data |-> y20_resp.data, exc |-> None]

\* not info or len(info) < 5
Sparse(info) == info.keys < MinInfoKeys

\* one invocation of fetch_info: ticker_obj.info, then get_info() when sparse
fetch_info(ticker, info_resp, get_info_resp) ==
    IF info_resp.kind = "raise"
    THEN [reqs |-> 1, ok |-> FALSE, data |-> PyNone, exc |-> ProviderException("info")]
    ELSE IF ~Sparse(info_resp.data)
    THEN [reqs |-> 1, ok |-> TRUE, data |-> info_resp.data, exc |-> None]
    ELSE IF get_info_resp.kind = "raise"
    THEN [reqs |-> 2, ok |-> FALSE, data |-> PyNone, exc |-> ProviderException("info")]
    ELSE IF Sparse(get_info_resp.data)
    THEN [reqs |-> 2, ok |-> FALSE, data |-> PyNone,
          exc |-> Raise("ValueError", <<"fetch_info failed for", ticker,
                                        ": info is empty or invalid.">>)]
    ELSE [reqs |-> 2, ok |-> TRUE, data |-> get_info_resp.data, exc |-> None]

\* one invocation of fetch_calendar (ticker_obj.calendar or {}) and of
\* fetch_dividends (ticker_obj.dividends.copy())
fetch_calendar(resp) ==
    IF resp.kind = "raise"
    THEN [reqs |-> 1, ok |-> FALSE, data |-> PyNone, exc |-> ProviderException("calendar")]
    ELSE [reqs |-> 1, ok |-> TRUE, data |-> resp.data, exc |-> None]
fetch_dividends(resp) ==
    IF resp.kind = "raise"
    THEN [reqs |-> 1, ok |-> FALSE, data |-> <<>>, exc |-> ProviderException("dividends")]
    ELSE [reqs |-> 1, ok |-> TRUE, data |-> resp.data, exc |-> None]

\* fetch_top_holdings: the rows of the frame with round(float(weight), 6); []
\* for a value that is no DataFrame; the bare except turns every exception
\* (the provider's, float() of a weight that is no number) into []
fetch_top_holdings_unguarded(resp) ==
    IF resp.kind = "raise" THEN Raised(ProviderException("top_holdings"))
    ELSE IF resp.kind # "frame" THEN Returned(<<>>)
    ELSE IF \E i \in DOMAIN resp.rows : resp.rows[i].t # "num"
    THEN Raised(Raise("ValueError", <<"could not convert to float">>))
    ELSE Returned([i \in DOMAIN resp.rows |-> [weight |-> resp.rows[i].n]])
fetch_top_holdings(resp) ==
    IF resp.kind = "raise" THEN Returned(<<>>)
    ELSE IF resp.kind # "frame" THEN Returned(<<>>)
    ELSE IF \E i \in DOMAIN resp.rows : resp.rows[i].t # "num"
    THEN Returned(<<>>)
    ELSE Returned([i \in DOMAIN resp.rows |-> [weight |-> resp.rows[i].n]])

\* fetch_sector_weightings: the entries of the dict with float(value) > 0; the
\* bare except turns every exception (the provider's, .items() of a value that
\* is no dict, float() of a value that is no number) into []
fetch_sector_weightings(resp) ==
    IF resp.kind = "raise" THEN Returned(<<>>)
    ELSE IF resp.kind # "dict" THEN Returned(<<>>)
    ELSE IF \E i \in DOMAIN resp.values : resp.values[i].t # "num"
    THEN Returned(<<>>)
    ELSE Returned(SelectSeq([i \in DOMAIN resp.values |-> [value |-> resp.values[i].n]],
                            LAMBDA w : w.value > 0))

\* safe_get(info, key, default): info.get(key, default), a null attribute
\* included; default when info has no get
safe_get(info, key, default) ==
    IF info = PyNone THEN default ELSE DictGet(info.dict, key, default)

\* float(value): TypeError on None
FloatOfNone ==
    Raise("TypeError",
          <<"float() argument must be a string or a real number, not 'NoneType'">>)

\* download_stock_info(raw_data): csv_data, the rows with their price column
\* (the prices of the fetched rows are not followed: 1)
download_stock_info(raw_data) ==
    [i \in DOMAIN raw_data |-> [date |-> raw_data[i], price |-> 1]]

\* data[data.index >= pd.Timestamp('1970-01-01')]
process_index(data) == SelectSeq(data, LAMBDA d : d >= EpochDay)

\* the statements of the fetch in program order
NextStageSkippingInfo(entry, stage) ==
    CASE stage = "history" -> "download"
      [] stage = "download" -> IF entry = "detailed" THEN "calendar" ELSE "dividends"
      [] stage = "info" -> IF entry = "detailed" THEN "calendar" ELSE "dividends"
      [] stage = "calendar" -> "dividends"
      [] stage = "dividends" -> "compute"
      [] stage = "compute" -> IF entry = "detailed" THEN "write" ELSE "assembled"
      [] stage = "write" -> "assembled"
NextStage(entry, stage) ==
    CASE stage = "history" -> "download"
      [] stage = "download" -> "info"
      [] stage = "info" -> IF entry = "detailed" THEN "calendar" ELSE "dividends"
      [] stage = "calendar" -> "dividends"
      [] stage = "dividends" -> "compute"
      [] stage = "compute" -> IF entry = "detailed" THEN "write" ELSE "assembled"
      [] stage = "write" -> "assembled"

\* after a failed invocation the wrapper of a call invokes that call again
RetryStageRestartingFetch(stage) == "history"
RetryStage(stage) == stage

\* try: calendar = fetch_calendar(...) except Exception: calendar = {}
\* every other call stands directly in the try of the fetch
EveryCallMandatory(entry, call) == TRUE
MandatoryButDividends(entry, call) == call \in {"history", "info"}
Mandatory(entry, call) == ~(entry = "detailed" /\ call = "calendar")

FetchIdle ==
    /\ f_entry = "none" /\ f_pc = "idle" /\ f_ticker = "A"
    /\ f_calls = [c \in FetchCalls |-> 0] /\ f_reqs = 0 /\ f_ok = {}
    /\ f_raw = <<>> /\ f_info = PyNone /\ f_calendar = PyNone
    /\ f_dividends = <<>> /\ f_metrics = PyNone /\ f_record = PyNone
    /\ f_file = PyNone /\ f_funds = PyNone /\ f_exc = None

\* the fetch entered: after the sleep and yf.Ticker(ticker)
InitFetchVars ==
    /\ f_entry \in {"detailed", "ticker"} /\ f_pc = "history" /\ f_ticker = "A"
    /\ f_calls = [c \in FetchCalls |-> 0] /\ f_reqs = 0 /\ f_ok = {}
    /\ f_raw = <<>> /\ f_info = PyNone /\ f_calendar = PyNone
    /\ f_dividends = <<>> /\ f_metrics = PyNone /\ f_record = PyNone
    /\ f_file = PyNone /\ f_funds = PyNone /\ f_exc = None

\* the fetch after its provider calls have returned, each at its first
\* invocation: any rows the provider's history can hold (not empty: fetch_history),
\* any info of at least MinInfoKeys attributes (fetch_info)
FetchedCalls(entry) ==
    IF entry = "detailed" THEN FetchCalls ELSE FetchCalls \ {"calendar"}
InitAssembleVars ==
    /\ f_entry \in {"detailed", "ticker"} /\ f_pc = "compute" /\ f_ticker = "A"
    /\ f_calls = [c \in FetchCalls |-> IF c \in FetchedCalls(f_entry) THEN 1 ELSE 0]
    /\ f_reqs = 1 /\ f_ok = FetchedCalls(f_entry)
    /\ f_raw \in SeqsUpTo(Days, MaxPoints) \ {<<>>}
    /\ f_info \in {Info(MinInfoKeys, d) : d \in InfoDicts}
    /\ f_calendar \in IF f_entry = "detailed" THEN Calendars ELSE {PyNone}
    /\ f_dividends \in DividendSeries
    /\ f_metrics = PyNone /\ f_record = PyNone
    /\ f_file = PyNone /\ f_funds = PyNone /\ f_exc = None

\* one pass of the wrapper's loop around a provider call: the invocation, and
\* on failure the sleep
Invoked(call, res) ==
    /\ f_calls' = [f_calls EXCEPT ![call] = @ + 1]
    /\ f_reqs' = res.reqs
    /\ IF res.ok
       THEN /\ f_ok' = f_ok \cup {call}
            /\ f_pc' = NextStage(f_entry, f_pc)
       ELSE /\ f_ok' = f_ok
            /\ f_pc' = RetryStage(f_pc)

\* raw_data = StockFetcher.fetch_history(yf_ticker): period = 'max'
FetchHistory ==
    /\ f_pc = "history"
    /\ RetryLoopContinues(f_calls["history"], StockMaxRetries)
    /\ \E r1 \in HistoryResponses, r2 \in HistoryResponses :
           /\ Invoked("history", fetch_history("max", r1, r2))
           /\ f_raw' = IF fetch_history("max", r1, r2).ok
                       THEN fetch_history("max", r1, r2).data ELSE f_raw
    /\ UNCHANGED <<f_funds, f_entry, f_ticker, f_info, f_calendar, f_dividends,
                   f_metrics, f_record, f_file, f_exc>>

\* csv_data, price_col = StockFetcher.download_stock_info(raw_data.copy())
FetchDownload ==
    /\ f_pc = "download"
    /\ f_pc' = NextStage(f_entry, f_pc)
    /\ UNCHANGED <<f_funds, f_entry, f_ticker, f_calls, f_reqs, f_ok, f_raw, f_info,
                   f_calendar, f_dividends, f_metrics, f_record, f_file, f_exc>>

\* info = StockFetcher.fetch_info(yf_ticker)
FetchInfo ==
    /\ f_pc = "info"
    /\ RetryLoopContinues(f_calls["info"], StockMaxRetries)
    /\ \E r1 \in InfoResponses, r2 \in InfoResponses :
           /\ Invoked("info", fetch_info(f_ticker, r1, r2))
           /\ f_info' = IF fetch_info(f_ticker, r1, r2).ok
                        THEN fetch_info(f_ticker, r1, r2).data ELSE f_info
    /\ UNCHANGED <<f_funds, f_entry, f_ticker, f_raw, f_calendar, f_dividends,
                   f_metrics, f_record, f_file, f_exc>>

\* calendar = StockFetcher.fetch_calendar(yf_ticker)
FetchCalendar ==
    /\ f_pc = "calendar"
    /\ RetryLoopContinues(f_calls["calendar"], StockMaxRetries)
    /\ \E r \in CalendarResponses :
           /\ Invoked("calendar", fetch_calendar(r))
           /\ f_calendar' = IF fetch_calendar(r).ok
                            THEN fetch_calendar(r).data ELSE f_calendar
    /\ UNCHANGED <<f_funds, f_entry, f_ticker, f_raw, f_info, f_dividends,
                   f_metrics, f_record, f_file, f_exc>>

\* dividends = StockFetcher.fetch_dividends(yf_ticker)
FetchDividends ==
    /\ f_pc = "dividends"
    /\ RetryLoopContinues(f_calls["dividends"], StockMaxRetries)
    /\ \E r \in DividendResponses :
           /\ Invoked("dividends", fetch_dividends(r))
           /\ f_dividends' = IF fetch_dividends(r).ok
                             THEN fetch_dividends(r).data ELSE f_dividends
    /\ UNCHANGED <<f_funds, f_entry, f_ticker, f_raw, f_info, f_calendar,
                   f_metrics, f_record, f_file, f_exc>>

\* the wrapper of a call gives up: its RuntimeError is caught for the calendar
\* of the detailed fetch, and fails the fetch for every other call
FetchGiveUp(call) ==
    /\ f_pc = call
    /\ ~RetryLoopContinues(f_calls[call], StockMaxRetries)
    /\ IF Mandatory(f_entry, call)
       THEN /\ f_exc' = FailedToFetch(f_ticker,
                                      TerminalError(FuncName(call), StockMaxRetries))
            /\ f_pc' = "failed"
            /\ f_calendar' = f_calendar
       ELSE /\ f_calendar' = EmptyCalendar
            /\ f_pc' = NextStage(f_entry, f_pc)
            /\ f_exc' = f_exc
    /\ UNCHANGED <<f_funds, f_entry, f_ticker, f_calls, f_reqs, f_ok, f_raw, f_info,
                   f_dividends, f_metrics, f_record, f_file>>

\* 'NoneType' object has no attribute ...: a method called on a null quoteType
NullQuoteType(method) ==
    Raise("AttributeError",
          <<"'NoneType' object has no attribute", method>>)

\* fetch_ticker_detailed from process_index on: the projection, then
\* safe_get(info, "quoteType", "").upper(), which raises on a null quoteType,
\* then the metrics and ticker_dict with float(currentPrice), then for an
\* "etf" the holdings block and totalAssets, for every other type marketCap
ComputeDetailed ==
    LET csv_data == download_stock_info(f_raw)
        ticker_type == safe_get(f_info, "quoteType", PyStr(""))
        currentPrice == safe_get(f_info, "currentPrice",
                                 PyNum(csv_data[Len(csv_data)].price))
        ticker_dict ==
            [tickerCode |-> f_ticker,
             type |-> ticker_type.s,
             data |-> process_index(f_raw),
             dividends |-> process_index(f_dividends),
             projection |->
                 calculate_upcoming_dividend(
                     f_calendar, csv_data,
                     safe_get(f_info, "dividendYield", PyNum(0))).projected,
             currentPrice |-> currentPrice.n]
        Fails(e) == /\ f_exc' = FailedToFetch(f_ticker, e)
                    /\ f_pc' = "failed"
                    /\ UNCHANGED <<f_metrics, f_record>>
    IN  IF ticker_type = PyNull
        THEN Fails(NullQuoteType("upper")) /\ f_funds' = f_funds
        ELSE IF currentPrice = PyNull
        THEN Fails(FloatOfNone) /\ f_funds' = f_funds
        ELSE IF ticker_type.s = "ETF"
        THEN \E funds_data \in FundsData :
               LET top == funds_data.top
                   sector == funds_data.sector
               IN
                 /\ f_funds' = funds_data
                 /\ IF fetch_top_holdings(top).kind = "raise"
                    THEN Fails(fetch_top_holdings(top).exc)
                    ELSE /\ f_metrics' = [volatility |-> Len(f_raw),
                                          maxDrawdown |-> Len(f_raw),
                                          sharpeRatio |-> Len(f_raw)]
                         /\ f_record' =
                                ticker_dict @@
                                [holdings |->
                                     [topHoldings |-> fetch_top_holdings(top).value,
                                      sectorWeights |->
                                          fetch_sector_weightings(sector).value],
                                 marketCap |-> safe_get(f_info, "totalAssets", PyStr(""))]
                         /\ f_pc' = NextStage(f_entry, f_pc)
                         /\ f_exc' = f_exc
        ELSE /\ f_funds' = f_funds
             /\ f_metrics' = [volatility |-> Len(f_raw),
                              maxDrawdown |-> Len(f_raw),
                              sharpeRatio |-> Len(f_raw)]
             /\ f_record' = ticker_dict @@
                            [marketCap |-> safe_get(f_info, "marketCap", PyStr(""))]
             /\ f_pc' = NextStage(f_entry, f_pc)
             /\ f_exc' = f_exc

\* fetch_ticker from process_index on: result with float(currentPrice) and its
\* metrics (the CAGR from valid_data), then ticker_type.lower(), which raises
\* on a null quoteType, then totalAssets for an "etf" and marketCap for every
\* other type, "mutualfund" included
ComputeTicker ==
    LET csv_data == download_stock_info(f_raw)
        ticker_type == safe_get(f_info, "quoteType", PyStr(""))
        currentPrice == safe_get(f_info, "currentPrice",
                                 PyNum(csv_data[Len(csv_data)].price))
        Fails(e) == /\ f_exc' = FailedToFetch(f_ticker, e)
                    /\ f_pc' = "failed"
                    /\ f_record' = f_record
    IN  /\ f_funds' = f_funds
        /\ IF currentPrice = PyNull
           THEN Fails(FloatOfNone) /\ f_metrics' = f_metrics
           ELSE /\ f_metrics' = [volatility |-> Len(f_raw),
                                 cagr |-> Len(process_index(f_raw))]
                /\ IF ticker_type = PyNull
                   THEN Fails(NullQuoteType("lower"))
                   ELSE /\ f_record' =
                               [ticker |-> f_ticker,
                                type |-> ticker_type.s,
                                currentPrice |-> currentPrice.n,
                                marketCap |->
                                    IF ticker_type.s = "ETF"
                                    THEN safe_get(f_info, "totalAssets", PyStr(""))
                                    ELSE safe_get(f_info, "marketCap", PyStr(""))]
                        /\ f_pc' = NextStage(f_entry, f_pc)
                        /\ f_exc' = f_exc

FetchCompute ==
    /\ f_pc = "compute"
    /\ IF f_entry = "detailed" THEN ComputeDetailed ELSE ComputeTicker
    /\ UNCHANGED <<f_entry, f_ticker, f_calls, f_reqs, f_ok, f_raw, f_info,
                   f_calendar, f_dividends, f_file>>

\* with open(output_path, "w") as f: json.dump(result_dict, f, ...): open
\* creates or truncates the file before json.dump writes to it; either of
\* them can raise (OSError), which the except of the fetch turns into its
\* RuntimeError
WriteOutcomes == {"saved", "open raises", "dump raises"}
WriteError(outcome) == Raise("OSError", <<outcome>>)
Truncated == [truncated |-> TRUE]
FetchWrite ==
    /\ f_pc = "write"
    /\ \E outcome \in WriteOutcomes :
           IF outcome = "saved"
           THEN /\ f_file' = f_record
                /\ f_pc' = NextStage(f_entry, f_pc)
                /\ f_exc' = f_exc
           ELSE /\ f_file' = IF outcome = "open raises" THEN f_file ELSE Truncated
                /\ f_exc' = FailedToFetch(f_ticker, WriteError(outcome))
                /\ f_pc' = "failed"
    /\ UNCHANGED <<f_funds, f_entry, f_ticker, f_calls, f_reqs, f_ok, f_raw, f_info,
                   f_calendar, f_dividends, f_metrics, f_record>>

\* ------------------------- functions applied on their own to their arguments
\* fetch_history with every period, split_tickers, get_fx_conversion_rate
MaxSplitLen == 4
MaxChunkSize == 3
MaxChunksBound == 3
MaxRate == 2
MaxFxRows == 2

Periods == {"max", "20y", "1y"}

\* ---- split_stocks.split_tickers
SplitSymbols == {"A", "B", "C", "D"}

\* the loop over tickers with the set seen: a ticker is kept where it occurs
\* first
RECURSIVE unique_tickers(_)
unique_tickers(tickers) ==
    IF tickers = <<>> THEN <<>>
    ELSE LET front == unique_tickers(SubSeq(tickers, 1, Len(tickers) - 1))
             ticker == tickers[Len(tickers)]
         IN  IF ticker \in Range(front) THEN front ELSE Append(front, ticker)

\* unique_tickers[i:i + chunk_size] for i in range(0, len(unique_tickers), chunk_size)
Slices(unique, chunk_size) ==
    [k \in 1..((Len(unique) + chunk_size - 1) \div chunk_size) |->
        SubSeq(unique, (k - 1) * chunk_size + 1, Min(k * chunk_size, Len(unique)))]

\* the variant that keeps the preferred chunk size whatever max_chunks is
split_tickers_keeping_preferred_size(tickers, preferred_chunk_size, max_chunks) ==
    LET chunks == Slices(unique_tickers(tickers), preferred_chunk_size)
    IN  [chunks |-> chunks, chunk_ids |-> [k \in DOMAIN chunks |-> k]]

\* the chunk files (in the order of their numbers) and chunk_ids.json
split_tickers(tickers, preferred_chunk_size, max_chunks) ==
    LET unique == unique_tickers(tickers)
        total_tickers == Len(unique)
        num_chunks == (total_tickers + preferred_chunk_size - 1) \div preferred_chunk_size
        chunk_size == IF num_chunks > max_chunks
                      THEN (total_tickers + max_chunks - 1) \div max_chunks
                      ELSE preferred_chunk_size
        chunks == Slices(unique, chunk_size)
    IN  [chunks |-> chunks, chunk_ids |-> [k \in DOMAIN chunks |-> k]]

\* ---- fxrate_utils.get_fx_conversion_rate
\* rates are fractions num/den: 0.01 is 1/100, 1.0 is 1/1
Currencies == {"GBP", "GBp", "USD", "EUR", "usd"}
lower(currency) ==
    CASE currency \in {"GBP", "GBp"} -> "gbp"
      [] currency \in {"USD", "usd"} -> "usd"
      [] currency = "EUR" -> "eur"
\* fx_data["Close"] of history(period="1d"): the rows the provider answers
FxCloses == {[num |-> n, den |-> d] : n \in 1..MaxRate, d \in 1..MaxRate}
FxData == SeqsUpTo(FxCloses, MaxFxRows)

\* f"{from_currency}{to_currency}=X" if from_currency != "USD" else f"{to_currency}=X"
conv_pair(from_currency, to_currency) ==
    IF from_currency # "USD" THEN <<from_currency, to_currency, "=X">>
    ELSE <<to_currency, "=X">>

\* after the pence branches: from_currency, to_currency and div_flag are set;
\* asked lists the provider calls made
fx_lookup(from_currency, to_currency, div_flag, fx_data) ==
    IF lower(from_currency) = lower(to_currency)
    THEN [kind |-> "return", rate |-> [num |-> 1, den |-> 1], asked |-> <<>>]
    ELSE IF fx_data = <<>>
    THEN [kind |-> "raise",
          exc |-> Raise("ValueError",
                        <<"No FX data found for", conv_pair(from_currency, to_currency)>>),
          asked |-> <<conv_pair(from_currency, to_currency)>>]
    ELSE LET conv_rate == fx_data[Len(fx_data)]
         IN  [kind |-> "return",
              rate |-> IF div_flag
                       THEN [num |-> conv_rate.num, den |-> conv_rate.den * 100]
                       ELSE conv_rate,
              asked |-> <<conv_pair(from_currency, to_currency)>>]

\* fx_data: what the provider answers to the one request the call can make
get_fx_conversion_rate(from_currency, to_currency, fx_data) ==
    IF from_currency = "GBp" /\ to_currency = "GBP"
    THEN [kind |-> "return", rate |-> [num |-> 1, den |-> 100], asked |-> <<>>]
    ELSE IF from_currency = "GBP" /\ to_currency = "GBp"
    THEN [kind |-> "return", rate |-> [num |-> 100, den |-> 1], asked |-> <<>>]
    ELSE IF from_currency = "GBp"
    THEN fx_lookup("GBP", to_currency, TRUE, fx_data)
    ELSE IF to_currency = "GBp"
    THEN fx_lookup(from_currency, "GBP", TRUE, fx_data)
    ELSE fx_lookup(from_currency, to_currency, FALSE, fx_data)

\* ---- each function applied to one choice of its arguments
UtilityInputs(fn) ==
    CASE fn = "fetch_history" ->
            [period : Periods, resp : HistoryResponses, y20_resp : HistoryResponses]
      [] fn = "split_tickers" ->
            [tickers : SeqsUpTo(SplitSymbols, MaxSplitLen),
             preferred_chunk_size : 1..MaxChunkSize, max_chunks : 1..MaxChunksBound]
      [] fn = "get_fx_conversion_rate" ->
            [from_currency : Currencies, to_currency : Currencies, fx_data : FxData]
UtilityFunctions == {"fetch_history", "split_tickers", "get_fx_conversion_rate"}
InitUtilityVars ==
    /\ m_pc = "input" /\ m_out = PyNone
    /\ m_fn \in UtilityFunctions
    /\ m_in \in UtilityInputs(m_fn)
ApplyFetchHistory ==
    Applied("fetch_history", fetch_history(m_in.period, m_in.resp, m_in.y20_resp))
ApplySplitTickers ==
    Applied("split_tickers",
            split_tickers(m_in.tickers, m_in.preferred_chunk_size, m_in.max_chunks))
ApplyFxConversionRate ==
    Applied("get_fx_conversion_rate",
            get_fx_conversion_rate(m_in.from_currency, m_in.to_currency, m_in.fx_data))

\* ------------------------------------------------ the sequential exporter
\* export_stocks.export_ticker_data: one symbol after the other
\* the try block of one iteration: the tenacity-wrapped provider calls (a
\* failing _fetch_calendar is caught: calendar = {}), the record, the file
RetryErrorOf(call) == Raise("RetryError", <<"RetryError in", call>>)
SequentialRun(ticker, p) ==
    IF p \in {"history", "info", "dividends"} THEN Raised(RetryErrorOf(p))
    ELSE Returned(ticker)

SeqIdle ==
    /\ q_pc = "idle" /\ q_tickers = <<>> /\ q_prov = [t \in Symbols |-> "ok"]
    /\ q_order = <<>> /\ q_saved = <<>> /\ q_log = <<>>
    /\ q_any_errors = FALSE /\ q_status = 0

\* total = len(tickers); any_errors = False; the log is opened
InitSeqVars ==
    /\ q_pc = "loop"
    /\ q_tickers \in SeqsUpTo(Symbols, MaxTickers)
    /\ q_prov \in [Symbols -> ProviderBehaviours]
    /\ \A t \in Symbols \ Range(q_tickers) : q_prov[t] = "ok"
    /\ q_order = <<>> /\ q_saved = <<>> /\ q_log = <<>>
    /\ q_any_errors = FALSE /\ q_status = 0

\* the variant whose except block leaves the loop
SequentialIterationBreaking ==
    /\ q_pc = "loop" /\ Len(q_order) < Len(q_tickers)
    /\ LET ticker == q_tickers[Len(q_order) + 1]
       IN  /\ q_order' = Append(q_order, ticker)
           /\ \E m \in Meets(q_prov[ticker]) :
                  IF SequentialRun(ticker, m).kind = "return"
                  THEN /\ q_saved' = Append(q_saved, ticker)
                       /\ UNCHANGED <<q_log, q_any_errors, q_pc, q_status>>
                  ELSE /\ q_log' = Append(q_log, <<ticker, Str(SequentialRun(ticker, m).exc)>>)
                       /\ q_any_errors' = TRUE
                       /\ q_status' = 1 /\ q_pc' = "exited"
                       /\ q_saved' = q_saved
    /\ UNCHANGED <<q_tickers, q_prov>>

\* one turn of "for i, ticker in enumerate(tickers, 1)": the try block, and on
\* any exception the except block: the line in the log, any_errors = True
SequentialIteration ==
    /\ q_pc = "loop" /\ Len(q_order) < Len(q_tickers)
    /\ LET ticker == q_tickers[Len(q_order) + 1]
       IN  /\ q_order' = Append(q_order, ticker)
           /\ \E m \in Meets(q_prov[ticker]) :
                  IF SequentialRun(ticker, m).kind = "return"
                  THEN /\ q_saved' = Append(q_saved, ticker)
                       /\ UNCHANGED <<q_log, q_any_errors>>
                  ELSE /\ q_log' = Append(q_log, <<ticker, Str(SequentialRun(ticker, m).exc)>>)
                       /\ q_any_errors' = TRUE
                       /\ q_saved' = q_saved
    /\ UNCHANGED <<q_pc, q_tickers, q_prov, q_status>>

\* after the loop: if any_errors: sys.exit(1)
SequentialEnd ==
    /\ q_pc = "loop" /\ Len(q_order) = Len(q_tickers)
    /\ IF q_any_errors
       THEN q_pc' = "exited" /\ q_status' = 1
       ELSE q_pc' = "returned" /\ q_status' = q_status
    /\ UNCHANGED <<q_tickers, q_prov, q_order, q_saved, q_log, q_any_errors>>

\* ------------------------------------------------------ the specifications
NextExport ==
    \/ ExportSubmit /\ UNCHANGED <<retry_vars, sched_vars, fetch_vars, metric_vars, seq_vars>>
    \/ \E i \in 1..(MaxTickers + 1) : WorkerStart(i) /\ UNCHANGED <<retry_vars, sched_vars, fetch_vars, metric_vars, seq_vars>>
    \/ \E i \in 1..(MaxTickers + 1) : WorkerOpen(i) /\ UNCHANGED <<retry_vars, sched_vars, fetch_vars, metric_vars, seq_vars>>
    \/ \E i \in 1..(MaxTickers + 1) : WorkerFinish(i) /\ UNCHANGED <<retry_vars, sched_vars, fetch_vars, metric_vars, seq_vars>>
    \/ \E i \in 1..(MaxTickers + 1) : ExportCollect(i) /\ UNCHANGED <<retry_vars, sched_vars, fetch_vars, metric_vars, seq_vars>>
    \/ ExportFinish /\ UNCHANGED <<retry_vars, sched_vars, fetch_vars, metric_vars, seq_vars>>

NextExportAll ==
    \/ ExportAllRound /\ UNCHANGED <<retry_vars, sched_vars, fetch_vars, metric_vars, seq_vars>>
    \/ \E i \in 1..(MaxTickers + 1) : WorkerStart(i) /\ UNCHANGED <<retry_vars, sched_vars, fetch_vars, metric_vars, seq_vars>>
    \/ \E i \in 1..(MaxTickers + 1) : WorkerFinish(i) /\ UNCHANGED <<retry_vars, sched_vars, fetch_vars, metric_vars, seq_vars>>
    \/ \E i \in 1..(MaxTickers + 1) : ExportAllCollect(i) /\ UNCHANGED <<retry_vars, sched_vars, fetch_vars, metric_vars, seq_vars>>
    \/ ExportAllUnwind /\ UNCHANGED <<retry_vars, sched_vars, fetch_vars, metric_vars, seq_vars>>
    \/ ExportAllEndRound /\ UNCHANGED <<retry_vars, sched_vars, fetch_vars, metric_vars, seq_vars>>
    \/ ExportAllWrite /\ UNCHANGED <<retry_vars, sched_vars, fetch_vars, metric_vars, seq_vars>>

NextSchedule == ScheduleRound /\ UNCHANGED <<retry_vars, batch_vars, fetch_vars, metric_vars, seq_vars>>

NextFetch ==
    \/ FetchHistory /\ UNCHANGED <<retry_vars, batch_vars, sched_vars, metric_vars, seq_vars>>
    \/ FetchDownload /\ UNCHANGED <<retry_vars, batch_vars, sched_vars, metric_vars, seq_vars>>
    \/ FetchInfo /\ UNCHANGED <<retry_vars, batch_vars, sched_vars, metric_vars, seq_vars>>
    \/ FetchCalendar /\ UNCHANGED <<retry_vars, batch_vars, sched_vars, metric_vars, seq_vars>>
    \/ FetchDividends /\ UNCHANGED <<retry_vars, batch_vars, sched_vars, metric_vars, seq_vars>>
    \/ \E call \in FetchCalls :
           FetchGiveUp(call) /\ UNCHANGED <<retry_vars, batch_vars, sched_vars, metric_vars, seq_vars>>
    \/ FetchCompute /\ UNCHANGED <<retry_vars, batch_vars, sched_vars, metric_vars, seq_vars>>
    \/ FetchWrite /\ UNCHANGED <<retry_vars, batch_vars, sched_vars, metric_vars, seq_vars>>

NextAssemble ==
    \/ FetchCompute /\ UNCHANGED <<retry_vars, batch_vars, sched_vars, metric_vars, seq_vars>>
    \/ FetchWrite /\ UNCHANGED <<retry_vars, batch_vars, sched_vars, metric_vars, seq_vars>>

NextSequential ==
    \/ SequentialIteration
           /\ UNCHANGED <<retry_vars, batch_vars, sched_vars, fetch_vars, metric_vars>>
    \/ SequentialEnd
           /\ UNCHANGED <<retry_vars, batch_vars, sched_vars, fetch_vars, metric_vars>>

NextMetrics ==
    \/ CalcVolatility /\ UNCHANGED <<retry_vars, batch_vars, sched_vars, fetch_vars, seq_vars>>
    \/ CalcSharpe /\ UNCHANGED <<retry_vars, batch_vars, sched_vars, fetch_vars, seq_vars>>
    \/ CalcDrawdown /\ UNCHANGED <<retry_vars, batch_vars, sched_vars, fetch_vars, seq_vars>>
    \/ CalcCagr /\ UNCHANGED <<retry_vars, batch_vars, sched_vars, fetch_vars, seq_vars>>
    \/ CalcDividendFrequency
           /\ UNCHANGED <<retry_vars, batch_vars, sched_vars, fetch_vars, seq_vars>>
    \/ CalcUpcomingDividend
           /\ UNCHANGED <<retry_vars, batch_vars, sched_vars, fetch_vars, seq_vars>>

NextUtilities ==
    \/ ApplyFetchHistory
           /\ UNCHANGED <<retry_vars, batch_vars, sched_vars, fetch_vars, seq_vars>>
    \/ ApplySplitTickers
           /\ UNCHANGED <<retry_vars, batch_vars, sched_vars, fetch_vars, seq_vars>>
    \/ ApplyFxConversionRate
           /\ UNCHANGED <<retry_vars, batch_vars, sched_vars, fetch_vars, seq_vars>>

InitRetry == InitRetryVars /\ BatchIdle /\ SchedIdle /\ FetchIdle /\ MetricsIdle /\ SeqIdle
InitExport == RetryIdle /\ InitExportVars /\ SchedIdle /\ FetchIdle /\ MetricsIdle /\ SeqIdle
InitExportAll == RetryIdle /\ InitExportAllVars /\ SchedIdle /\ FetchIdle /\ MetricsIdle /\ SeqIdle
InitSchedule == RetryIdle /\ BatchIdle /\ InitSchedVars /\ FetchIdle /\ MetricsIdle /\ SeqIdle
InitFetch == RetryIdle /\ BatchIdle /\ SchedIdle /\ InitFetchVars /\ MetricsIdle /\ SeqIdle
InitAssemble == RetryIdle /\ BatchIdle /\ SchedIdle /\ InitAssembleVars /\ MetricsIdle /\ SeqIdle
InitSequential ==
    RetryIdle /\ BatchIdle /\ SchedIdle /\ FetchIdle /\ MetricsIdle /\ InitSeqVars
InitMetrics == RetryIdle /\ BatchIdle /\ SchedIdle /\ FetchIdle /\ InitMetricsVars /\ SeqIdle
InitUtilities ==
    RetryIdle /\ BatchIdle /\ SchedIdle /\ FetchIdle /\ InitUtilityVars /\ SeqIdle

SpecRetry == InitRetry /\ [][NextRetry]_vars
SpecExport == InitExport /\ [][NextExport]_vars
SpecExportAll == InitExportAll /\ [][NextExportAll]_vars
SpecSchedule == InitSchedule /\ [][NextSchedule]_vars
SpecFetch == InitFetch /\ [][NextFetch]_vars
SpecMetrics == InitMetrics /\ [][NextMetrics]_vars
SpecAssemble == InitAssemble /\ [][NextAssemble]_vars
SpecSequential == InitSequential /\ [][NextSequential]_vars
SpecUtilities == InitUtilities /\ [][NextUtilities]_vars

\* the fetch runs on: a step that can be taken is taken
SpecFetchFair == SpecFetch /\ WF_vars(NextFetch)

\* the threads of the pool run and the main thread goes on: a step that can
\* be taken is taken
SpecExportAllFair == SpecExportAll /\ WF_vars(NextExportAll)

Init ==
    InitRetry \/ InitExport \/ InitExportAll \/ InitSchedule \/ InitFetch
    \/ InitMetrics \/ InitAssemble \/ InitSequential \/ InitUtilities
Next ==
    NextRetry \/ NextExport \/ NextExportAll \/ NextSchedule \/ NextFetch
    \/ NextMetrics \/ NextSequential \/ NextUtilities
Spec == Init /\ [][Next]_vars

\* ------------------------------------------------------------- the claims
RetryEnded == r_pc \in {"returned", "raised"}
BatchEnded == b_pc \in {"done", "raised"}
StaticProvider == \A t \in Range(b_tickers) : b_prov[t] # "flaky"
DistinctTickers == Cardinality(Range(b_tickers)) = Len(b_tickers)

\* C1: with max_retries = n >= 1, an operation that fails on every call is
\* invoked exactly n times, then the wrapper raises its terminal RuntimeError;
\* the wrapper never returns and never makes an (n+1)-th invocation.
C1_AlwaysFailingInvokedExactlyN ==
    (r_op.always /\ r_max >= 1) =>
        /\ r_calls <= r_max
        /\ r_pc # "returned"
        /\ (r_pc = "raised" => r_calls = r_max /\ r_exc[1].type = "RuntimeError")
        /\ (r_pc = "loop" /\ r_calls = r_max => ENABLED RetryExhausted)

C1_Witness ==
    /\ r_op.always /\ r_max = StockMaxRetries
    /\ r_pc = "raised" /\ r_calls = StockMaxRetries /\ r_sleeps = StockMaxRetries

\* C2 as stated: with max_retries = n >= 1, an operation that fails on exactly
\* its first n calls and succeeds on the next is invoked n + 1 times and the
\* wrapper returns the successful value.
C2_Original ==
    (~r_op.always /\ r_op.fails = r_max /\ r_max >= 1 /\ RetryEnded) =>
        /\ r_pc = "returned"
        /\ r_calls = r_max + 1
        /\ r_ret = OpValue(r_max + 1)

\* C2 as amended: with max_retries = n >= 1, an operation that fails on
\* exactly its first k calls and succeeds on the next is retried exactly k
\* times (k + 1 invocations) and its value is returned when k < n; when
\* k >= n the wrapper makes exactly n invocations and raises.
C2_Amended ==
    (~r_op.always /\ r_max >= 1 /\ RetryEnded) =>
        IF r_op.fails < r_max
        THEN /\ r_pc = "returned"
             /\ r_calls = r_op.fails + 1
             /\ r_sleeps = r_op.fails
             /\ r_ret = OpValue(r_op.fails + 1)
        ELSE /\ r_pc = "raised"
             /\ r_calls = r_max

C2_Witness ==
    /\ ~r_op.always /\ r_max = StockMaxRetries /\ r_op.fails = r_max - 1
    /\ r_pc = "returned" /\ r_calls = r_max /\ r_ret = OpValue(r_max)

\* C3: when the wrapper gives up, the terminal error carries the message of
\* the last underlying failure, in its own message or in its cause chain.
C3_TerminalCarriesLastFailure ==
    (r_pc = "raised" /\ r_op_last # None) =>
        \E i \in DOMAIN r_exc : Contains(r_exc[i].msg, Str(r_op_last))

\* C4: when a provider call of a symbol fails with message M on every
\* attempt, the error text the batch runner records for the symbol is M.
C4_RecordedTextIsProviderMessage ==
    \A t \in DOMAIN b_errors :
        AlwaysFails(b_prov[t]) => b_errors[t] = ProviderMessage(b_prov[t])

\* C5: when the fetch task of a symbol raises, no exception leaves the
\* runner: the symbol is recorded with an error message and the outcome of
\* every other task is collected.
C5_NoExceptionEscapesRunner ==
    /\ b_exc = None
    /\ b_pc # "raised"
    /\ b_pc = "done" =>
           \A i \in DOMAIN b_futures :
               /\ i \in b_collected
               /\ (b_futures[i].outcome.kind = "raise"
                       => b_futures[i].ticker \in DOMAIN b_errors)

\* C6: for N distinct symbols of which K fail on every fetch and N - K
\* succeed on every fetch, the finished run holds exactly one outcome per
\* symbol: the K failing ones marked failed with a non-empty text, the
\* N - K others recorded as successes.
C6_Succeeded == DOMAIN b_resdict \ FailedOf(b_resdict)
C6_Failed == DOMAIN b_errors \cup FailedOf(b_resdict)
C6_ExactlyOneOutcomePerSymbol ==
    (BatchEnded /\ StaticProvider /\ DistinctTickers /\ b_max_rounds >= 1) =>
        /\ C6_Succeeded = {t \in Range(b_tickers) : AlwaysSucceeds(b_prov[t])}
        /\ C6_Failed = {t \in Range(b_tickers) : AlwaysFails(b_prov[t])}
        /\ \A t \in DOMAIN b_errors : b_errors[t] # <<>>

\* C7: for any input list, duplicates included, one fetch task is submitted
\* per unique symbol, and at completion no symbol is counted twice among the
\* successes or is both a success and a failure.
C7_OneTaskPerUniqueSymbol ==
    /\ b_pc # "start" => Len(b_futures) = Cardinality(Range(b_tickers))
    /\ b_pc = "done" =>
           /\ Cardinality(Range(b_results)) = Len(b_results)
           /\ Range(b_results) \cap DOMAIN b_errors = {}

\* C8: a symbol whose fetch failed is submitted again while rounds remain:
\* the multi-round runner does not end with a symbol whose latest fetch
\* failed unless the round in progress was the last one permitted.
C8_FailedSymbolResubmitted ==
    BatchEnded =>
        \A i \in DOMAIN b_futures :
            b_futures[i].outcome.kind = "raise" => b_round + 1 >= b_max_rounds

\* C9: the number of symbol fetches running at the same time never exceeds
\* the max_workers value passed by the caller.
C9_ParallelismCapped == b_peak <= b_max_workers

C16_SleepWithinMaxDelay ==
    (r_variant = "stocks" /\ r_sleeps >= 1) => r_delay <= r_max_delay

\* C17: within one call of the stocks wrapper (decorated with delay > 0 and
\* backoff > 1) the sleep without jitter strictly grows from one retry to the
\* next until it has reached max_delay.
C17_BackoffGrowsWithinCall ==
    (r_variant = "stocks" /\ r_sleeps >= 2 /\ r_prev_base < r_max_delay) =>
        r_base > r_prev_base

\* C18: a success is never retried: as soon as an invocation of the wrapped
\* operation returns, the wrapper has returned that same value, having slept
\* only after the failures before it, and it neither invokes nor sleeps again.
C18_SuccessIsNotRetried ==
    /\ (r_calls >= 1 /\ ~OpFails(r_op, r_calls)) =>
           /\ r_pc = "returned"
           /\ r_ret = OpValue(r_calls)
           /\ r_sleeps = r_calls - 1
    /\ r_pc = "returned" => ~ENABLED RetryInvoke /\ ~ENABLED RetrySleep

C18_Witness ==
    /\ r_pc = "returned" /\ r_calls = 3 /\ r_sleeps = 2 /\ r_max = StockMaxRetries
    /\ r_ret = OpValue(3)

\* C19: a programming error (a TypeError) raised by the wrapped operation is
\* not retried: the operation is invoked once, the wrapper does not sleep,
\* and the TypeError itself leaves the wrapper.
C19_ProgrammingErrorNotRetried ==
    (r_errtype = "TypeError" /\ r_calls >= 1 /\ OpFails(r_op, 1)) =>
        /\ r_calls = 1
        /\ r_sleeps = 0
        /\ r_pc = "propagated"
        /\ r_exc # None /\ r_exc[1].type = "TypeError"


\* C11: the multi-round runner terminates: it submits at most
\* max_global_retries rounds, at most one per value of the round counter, it
\* leaves the loop normally only when no symbol is failing or the rounds are
\* used up, and every run ends.
C11_RoundsBounded ==
    /\ Len(b_submits) <= b_max_rounds
    /\ Len(b_submits) <= b_round + 1
    /\ b_pc \in {"write", "done"} =>
           FailedOf(b_resdict) = {} \/ Len(b_submits) = b_max_rounds
    /\ BatchEnded => ~ENABLED ExportAllRound
C11_RunnerTerminates == []C11_RoundsBounded /\ <>BatchEnded

C11_Witness ==
    /\ b_entry = "export_all" /\ b_pc = "raised" /\ b_max_rounds = 1
    /\ Len(b_submits) = 1 /\ b_exc # None /\ Len(b_tickers) >= 2


\* C12: when a batch run has ended, every symbol that is still failing (its
\* fetch task raised, or its result carries an error) has a line
\* "symbol: message" with a non-empty message in the failure log, and is not
\* among the symbols exported as successes.
C12_StillFailing ==
    {b_futures[i].ticker :
        i \in {j \in DOMAIN b_futures : b_futures[j].outcome.kind = "raise"}}
    \cup FailedOf(b_resdict)
C12_FailingSymbolsReported ==
    (BatchEnded /\ DistinctTickers) =>
        \A t \in C12_StillFailing :
            /\ \E line \in b_log : line[1] = t /\ line[2] # <<>>
            /\ t \notin Range(b_results)
            /\ t \notin C6_Succeeded


FetchEnded == f_pc \in {"assembled", "failed"}
GaveUp(call) ==
    /\ f_calls[call] = StockMaxRetries /\ call \notin f_ok /\ f_pc # call

\* C13: the fetch of one symbol goes history, issuer info, auxiliary data,
\* metrics, record: info is never requested before history has succeeded,
\* auxiliary data never before info, no metric is computed and no record is
\* built or written unless history and info have succeeded, and every fetch
\* ends, in exactly one of ASSEMBLED (the record written, no exception) and
\* FAILED (an exception, the record not written).
C13_StagesInOrder ==
    /\ f_calls["info"] > 0 => "history" \in f_ok
    /\ (f_calls["calendar"] > 0 \/ f_calls["dividends"] > 0) =>
           {"history", "info"} \subseteq f_ok
    /\ f_metrics # PyNone =>
           /\ {"history", "info", "dividends"} \subseteq f_ok
           /\ f_entry = "detailed" => f_calendar # PyNone
    /\ f_record # PyNone => f_metrics # PyNone
    /\ f_file # PyNone => f_record # PyNone
    /\ f_pc = "assembled" =>
           /\ f_exc = None /\ f_record # PyNone
           /\ f_entry = "detailed" => f_file = f_record
    /\ f_pc = "failed" =>
           /\ f_exc # None
           /\ f_record # PyNone => f_file # f_record
    /\ FetchEnded => ~ENABLED NextFetch
C13_FetchOrderAndEnd == []C13_StagesInOrder /\ <>FetchEnded

C13_Witness ==
    /\ f_entry = "detailed" /\ f_pc = "assembled" /\ f_file # PyNone
    /\ f_calls["history"] = 2 /\ f_calls["info"] = 2
    /\ f_calls["calendar"] = 1 /\ f_calls["dividends"] = 1

\* C14: in the detailed fetch a calendar call that fails on every retry does
\* not fail the symbol: the fetch goes on with an empty calendar, it ends
\* ASSEMBLED when nothing else fails, and its record has no upcoming-dividend
\* projection; a history or info call that fails on every retry ends the
\* symbol FAILED with no record built or written.
C14_CalendarOptionalOthersFatal ==
    f_entry = "detailed" =>
        /\ GaveUp("calendar") =>
               /\ f_calendar = EmptyCalendar
               /\ f_exc # None => ~Contains(Str(f_exc), <<"fetch_calendar">>)
               /\ f_record # PyNone => ~f_record.projection
               /\ (f_pc = "failed") =
                      (GaveUp("dividends") \/
                       (f_pc = "failed" /\ safe_get(f_info, "quoteType", PyStr("")) = PyNull) \/
                       (f_pc = "failed" /\ f_record # PyNone))
        /\ \A call \in {"history", "info"} :
               GaveUp(call) =>
                   /\ f_pc = "failed"
                   /\ Contains(Str(f_exc), <<FuncName(call)>>)
                   /\ f_record = PyNone /\ f_file = PyNone

C14_Witness ==
    /\ f_entry = "detailed" /\ GaveUp("calendar") /\ f_pc = "assembled"
    /\ f_file # PyNone /\ ~f_file.projection /\ f_calendar = EmptyCalendar

\* C15: each provider call has its own retry budget: a step invokes the
\* function of one call only, that of the stage the fetch is in, at most
\* max_retries times, and never a call that has already returned; so no
\* failure or retry of info, calendar or dividends invokes history again.
C15_Step ==
    \A call \in FetchCalls :
        f_calls'[call] # f_calls[call] =>
            /\ f_pc = call
            /\ call \notin f_ok
            /\ f_calls'[call] = f_calls[call] + 1
            /\ f_calls'[call] <= StockMaxRetries
            /\ \A other \in FetchCalls \ {call} : f_calls'[other] = f_calls[other]
C15_OwnRetryBudget == [][C15_Step]_vars

C15_Witness ==
    /\ f_entry = "detailed" /\ f_pc = "assembled" /\ f_calls["history"] = 1
    /\ f_calls["info"] = StockMaxRetries /\ f_calls["dividends"] = 3

\* C20: no metric and no record is computed from a price series with zero
\* points: in the detailed fetch the series the metrics are computed from and
\* the normalized series of the record (after the date filter of
\* process_index) have at least one point.
C20_NoEmptySeriesDownstream ==
    f_entry = "detailed" =>
        /\ f_metrics # PyNone =>
               /\ f_metrics.volatility >= 1 /\ f_metrics.maxDrawdown >= 1
               /\ f_metrics.sharpeRatio >= 1
        /\ f_record # PyNone => Len(f_record.data) >= 1


MetricDone(fn) == m_pc = "done" /\ m_fn = fn

\* C23: for every price series with fewer than 2 points calculate_volatility
\* returns 0.0, calculate_sharpe_ratio returns 0.0 and both CAGR results are
\* None.
C23_ShortSeriesNeutral ==
    /\ (MetricDone("volatility") /\ Len(m_in) < 2) => m_out = FZero
    /\ (MetricDone("sharpe") /\ Len(m_in) < 2) => m_out = FZero
    /\ (MetricDone("cagr") /\ Len(m_in.data) < 2) =>
           m_out.shortTermCagr = PyNone /\ m_out.longTermCagr = PyNone

\* C24: the dividend frequency label follows the mean number of dividends per
\* calendar year from the first dividend to the last: >= 11 Monthly, >= 3.5
\* Quarterly, >= 2 Semi-Annually, >= 1 Annually, below 1 Irregular; fewer
\* than 2 dividends give N/A.
C24_Label ==
    IF Len(m_in) < 2 THEN "N/A"
    ELSE LET total == Len(m_in)
             years == m_in[Len(m_in)] - m_in[1] + 1
         IN  IF total >= 11 * years THEN "Monthly"
             ELSE IF 2 * total >= 7 * years THEN "Quarterly"
             ELSE IF total >= 2 * years THEN "Semi-Annually"
             ELSE IF total >= years THEN "Annually"
             ELSE "Irregular"
C24_FrequencyByYearlyMean ==
    MetricDone("dividend_frequency") => m_out = C24_Label

\* C25: for a series P(t) = P0 * (1 + r)^t (here r = 100 %, one row a year)
\* that starts at least one year before today and does not reach beyond
\* today, the 1-year CAGR is r: the end price is (1 + r) times the start
\* price, whatever the date of the last row is.
C25_OneYearCagrIsRate ==
    (/\ MetricDone("cagr")
     /\ m_in.data \in ExponentialInputs /\ Len(m_in.data) >= 2
     /\ m_in.data[1].date <= m_in.today - 1
     /\ m_in.data[Len(m_in.data)].date <= m_in.today) =>
        /\ m_out.shortTermCagr # PyNone
        /\ m_out.shortTermCagr.mean_of[1].years = 1
        /\ m_out.shortTermCagr.mean_of[1].end =
               2 * m_out.shortTermCagr.mean_of[1].start

\* C26: a horizon with no row at or before its start date contributes nothing:
\* the short-term result is the mean of the 1y and 2y values that exist, the
\* long-term result the mean of the 5y, 10y, 15y and 20y values that exist,
\* and a group with no value is None.
C26_Exists(y) == \E i \in DOMAIN m_in.data : m_in.data[i].date <= m_in.today - y
C26_Value(y) ==
    LET i == CHOOSE k \in DOMAIN m_in.data :
                 /\ m_in.data[k].date <= m_in.today - y
                 /\ \A j \in DOMAIN m_in.data :
                        m_in.data[j].date <= m_in.today - y => j <= k
    IN  [start |-> m_in.data[i].price,
         end |-> m_in.data[Len(m_in.data)].price, years |-> y]
C26_Group(horizons) ==
    LET existing == SelectSeq(horizons, C26_Exists)
    IN  IF existing = <<>> THEN PyNone
        ELSE [mean_of |-> [i \in DOMAIN existing |-> C26_Value(existing[i])]]
C26_MissingHorizonsLeftOut ==
    MetricDone("cagr") =>
        /\ m_out.shortTermCagr = C26_Group(<<1, 2>>)
        /\ m_out.longTermCagr = C26_Group(<<5, 10, 15, 20>>)

C26_Witness ==
    /\ MetricDone("cagr") /\ Len(m_in.data) = 2
    /\ C26_Exists(1) /\ ~C26_Exists(2)
    /\ m_out.shortTermCagr # PyNone /\ Len(m_out.shortTermCagr.mean_of) = 1
    /\ m_out.longTermCagr = PyNone

\* C27: the maximum drawdown of a non-empty series of positive prices is never
\* above 0, and it is 0.0 when the series is non-decreasing.
C27_DrawdownNeverPositive ==
    (MetricDone("drawdown") /\ m_in # <<>>) =>
        /\ m_out.kind = "value"
        /\ m_out.hundredths <= 0
        /\ (\A i \in 1..(Len(m_in) - 1) : m_in[i] <= m_in[i + 1]) => m_out = FZero

C27_Witness ==
    /\ MetricDone("drawdown") /\ Len(m_in) = 3
    /\ m_in[1] < m_in[2] /\ m_in[2] < m_in[3] /\ m_out = FZero

\* C28: calculate_upcoming_dividend never raises: it returns the projection
\* (date, (yield / 100 * latest price) / 4) exactly when the calendar holds a
\* dividend date on or after the last price date and the yield is a number
\* greater than 0, and (None, None) otherwise.
C28_Projects ==
    /\ m_in.events # PyNone /\ m_in.events.dated
    /\ m_in.csv_data # <<>>
    /\ m_in.events.date >= m_in.csv_data[Len(m_in.csv_data)].date
    /\ m_in.div_yield.t = "num" /\ m_in.div_yield.n > 0
C28_ProjectionOnlyWhenDue ==
    MetricDone("upcoming_dividend") =>
        IF C28_Projects
        THEN /\ m_out.projected /\ m_out.date = m_in.events.date
             /\ m_out.num * 400 =
                    m_out.den * m_in.div_yield.n
                        * m_in.csv_data[Len(m_in.csv_data)].price
        ELSE m_out = NoProjection

C28_Witness ==
    /\ MetricDone("upcoming_dividend") /\ C28_Projects /\ m_out.projected
    /\ m_in.events.date > m_in.csv_data[1].date

\* C21: the price series written to a record is strictly ascending by date
\* (so no two entries share a date) and holds only dates on or after
\* 1970-01-01, whatever rows the provider's history holds.
C21_SeriesAscendingFromEpoch ==
    (f_entry = "detailed" /\ f_record # PyNone) =>
        /\ Ascending(f_record.data)
        /\ \A i \in DOMAIN f_record.data : f_record.data[i] >= EpochDay

\* C22: an info whose named attributes are missing or null in any combination
\* (quoteType included) never fails the fetch: once every provider call has
\* returned, the symbol ends assembled, a missing attribute read as its default.
C22_SparseInfoStillAssembles ==
    (f_ok = FetchedCalls(f_entry) /\ f_info # PyNone) =>
        /\ f_pc # "failed"
        /\ f_record # PyNone =>
               f_record.marketCap \in
                   {PyStr("")} \cup InfoValues("totalAssets") \cup InfoValues("marketCap")

\* C29: the holdings calls never fail a symbol: whatever funds_data gives, the
\* fetch of an ETF goes on to its file, and a failed or malformed top_holdings
\* / sector_weightings leaves the empty list in the holdings block.
C29_Malformed(resp) ==
    \/ resp.kind \in {"raise", "data"}
    \/ resp.kind = "frame" /\ \E i \in DOMAIN resp.rows : resp.rows[i].t # "num"
    \/ resp.kind = "dict" /\ \E i \in DOMAIN resp.values : resp.values[i].t # "num"
C29_HoldingsNeverFail ==
    f_funds # PyNone =>
        /\ f_record # PyNone /\ "holdings" \in DOMAIN f_record
        /\ f_pc = "failed" => Str(f_exc) = Str(FailedToFetch(f_ticker, WriteError("open raises")))
                                \/ Str(f_exc) = Str(FailedToFetch(f_ticker, WriteError("dump raises")))
        /\ f_pc = "assembled" => f_file = f_record
        /\ C29_Malformed(f_funds.top) => f_record.holdings.topHoldings = <<>>
        /\ C29_Malformed(f_funds.sector) => f_record.holdings.sectorWeights = <<>>

C29_Witness ==
    /\ f_pc = "assembled" /\ f_funds # PyNone
    /\ f_funds.top = ProviderRaise /\ f_funds.sector = ProviderRaise
    /\ f_file.type = "ETF"
    /\ f_file.holdings = [topHoldings |-> <<>>, sectorWeights |-> <<>>]

\* C30: the record of an ETF or a mutual fund takes its size attribute from
\* totalAssets and (the detailed record) carries a holdings block; the record
\* of any other instrument takes it from marketCap and carries none.
C30_FundTypeRecord ==
    f_record # PyNone =>
        IF f_record.type \in {"ETF", "MUTUALFUND"}
        THEN /\ f_record.marketCap = safe_get(f_info, "totalAssets", PyStr(""))
             /\ f_entry = "detailed" => "holdings" \in DOMAIN f_record
        ELSE /\ f_record.marketCap = safe_get(f_info, "marketCap", PyStr(""))
             /\ "holdings" \notin DOMAIN f_record

\* C34: two tasks of export.export_ticker never have the same output file
\* open for writing at the same time, whatever the input list.
C34_OneWriterPerFile ==
    b_entry = "export" =>
        \A i \in Writing : \A j \in Writing :
            b_futures[i].ticker = b_futures[j].ticker => i = j

\* C31: results and errors are written only by the coordinating thread, in a
\* turn of its as_completed loop for a task that is done; no step of a worker
\* task (its start, the opening of its file, its end) changes them.
C31_OnlyCoordinatorWrites ==
    [][(b_results' # b_results \/ b_errors' # b_errors \/ b_resdict' # b_resdict) =>
           /\ b_pc = "collect"
           /\ b_futures' = b_futures
           /\ \E i \in b_collected' \ b_collected :
                  /\ b_futures[i].state = "done"
                  /\ b_collected' = b_collected \cup {i}]_vars

C31_Witness ==
    /\ b_entry = "export" /\ b_pc = "collect"
    /\ Len(b_results) >= 1 /\ DOMAIN b_errors # {} /\ Running # {}

\* C32: for a fixed list and fixed outcomes per symbol, the set of succeeded
\* symbols and the symbol-to-error mapping at the end of export.export_ticker
\* are a function of the list and the outcomes alone: they are the same for
\* every order in which the tasks end and are collected.
C32_Failing == {t \in Range(b_tickers) : AlwaysFails(b_prov[t])}
C32_OrderIndependent ==
    (b_entry = "export" /\ b_pc = "done" /\ StaticProvider) =>
        /\ Range(b_results) = Range(b_tickers) \ C32_Failing
        /\ b_errors = [t \in C32_Failing |->
                           get_root_error_message(
                               FetchDetailedRun(t, b_prov[t]).exc)]

C32_Witness ==
    /\ b_entry = "export" /\ b_pc = "done" /\ StaticProvider
    /\ Len(b_tickers) = 2 /\ b_tickers[1] # b_tickers[2]
    /\ b_results = <<b_tickers[2], b_tickers[1]>>

\* C33: the sequential exporter exits with status 1 exactly when the fetch of
\* at least one symbol failed and returns normally otherwise; every failure is
\* logged and the loop goes on: the symbols are processed once each, in list
\* order, every one either saved or logged.
SeqEnded == q_pc \in {"returned", "exited"}
C33_SequentialExitStatus ==
    /\ q_order = SubSeq(q_tickers, 1, Len(q_order))
    /\ Len(q_saved) + Len(q_log) = Len(q_order)
    /\ q_any_errors <=> q_log # <<>>
    /\ SeqEnded =>
           /\ q_order = q_tickers
           /\ (q_pc = "exited") <=> (q_log # <<>>)
           /\ q_status = IF q_log # <<>> THEN 1 ELSE 0

C33_Witness ==
    /\ q_pc = "exited" /\ q_status = 1 /\ Len(q_tickers) = 3
    /\ q_order = q_tickers
    /\ Len(q_log) = 1 /\ q_log[1][1] = q_tickers[1]
    /\ q_saved = <<q_tickers[2], q_tickers[3]>>

\* C35: a detailed fetch that ends FAILED leaves the output file untouched:
\* the file is neither created, truncated nor partly written, whichever step
\* raised, the serialization of the record included.
C35_FailedLeavesFileUntouched ==
    (f_entry = "detailed" /\ f_pc = "failed") => f_file = PyNone

\* C36: every fetch of one symbol ends, ASSEMBLED or FAILED, after a bounded
\* number of provider requests: each of history, info, calendar and dividends
\* is invoked at most max_retries = 5 times, one invocation of history or of
\* info makes at most 2 requests and one of calendar or dividends 1.
C36_Step ==
    \A call \in FetchCalls :
        f_calls'[call] # f_calls[call] =>
            /\ f_calls'[call] <= StockMaxRetries
            /\ f_reqs' >= 1
            /\ f_reqs' <= IF call \in {"history", "info"} THEN 2 ELSE 1
C36_BoundedProviderCalls == [][C36_Step]_vars /\ <>FetchEnded

C36_Witness ==
    /\ f_pc = "failed" /\ f_calls["history"] = StockMaxRetries
    /\ f_reqs = 2 /\ "history" \notin f_ok

\* C37: a dividends call that fails on every retry fails the symbol, in both
\* fetches: no empty series stands in for it, no record is built or written,
\* and the exception that leaves the fetch names fetch_dividends.
C37_DividendsFatal ==
    GaveUp("dividends") =>
        /\ f_pc = "failed"
        /\ f_metrics = PyNone /\ f_record = PyNone /\ f_file = PyNone
        /\ Contains(Str(f_exc), <<"Failed to fetch", f_ticker>>)
        /\ Contains(Str(f_exc), <<"fetch_dividends">>)

C37_Witness ==
    /\ f_entry = "detailed" /\ GaveUp("dividends") /\ f_pc = "failed"
    /\ GaveUp("calendar") /\ f_calendar = EmptyCalendar


\* C38: one attempt of fetch_history, answered by the provider without a raise:
\* with period 'max' an empty first answer is followed by exactly one more
\* request, and the attempt then fails exactly when that answer is empty too;
\* a non-empty first answer is returned after the one request; with any other
\* period there is one request whatever the answer, and no answer other than
\* the provider's is ever returned
C38_Empty(r) == r.kind = "data" /\ r.data = <<>>
C38_Data(r) == r.kind = "data" /\ r.data # <<>>
C38_FallbackOnlyForMax ==
    MetricDone("fetch_history") =>
        /\ C38_Data(m_in.resp) =>
               m_out.reqs = 1 /\ m_out.ok /\ m_out.data = m_in.resp.data
        /\ (C38_Empty(m_in.resp) /\ m_in.period = "max") =>
               /\ m_out.reqs = 2
               /\ C38_Data(m_in.y20_resp) =>
                      m_out.ok /\ m_out.data = m_in.y20_resp.data
               /\ C38_Empty(m_in.y20_resp) =>
                      ~m_out.ok /\ m_out.exc[1].type = "ValueError"
               /\ (~m_out.ok /\ m_in.y20_resp.kind = "data") =>
                      C38_Empty(m_in.y20_resp)
        /\ m_in.period # "max" =>
               /\ m_out.reqs = 1
               /\ C38_Empty(m_in.resp) =>
                      ~m_out.ok /\ m_out.exc[1].type = "ValueError"
C38_Witness ==
    /\ MetricDone("fetch_history")
    /\ m_in.period = "max"
    /\ C38_Empty(m_in.resp) /\ C38_Data(m_in.y20_resp)
    /\ m_out.reqs = 2 /\ m_out.ok

\* C39: the chunks of split_tickers, one after the other in the order of
\* their numbers, hold every ticker of the input once, in the order of the
\* first occurrences; no chunk is empty; there are at most max_chunks chunks
RECURSIVE C39_Concat(_)
C39_Concat(chunks) ==
    IF chunks = <<>> THEN <<>>
    ELSE C39_Concat(SubSeq(chunks, 1, Len(chunks) - 1)) \o chunks[Len(chunks)]
C39_First(tickers, t) ==
    CHOOSE i \in DOMAIN tickers :
        tickers[i] = t /\ \A j \in 1..(i - 1) : tickers[j] # t
C39_ChunksPartition ==
    MetricDone("split_tickers") =>
        LET all == C39_Concat(m_out.chunks)
        IN  /\ Range(all) = Range(m_in.tickers)
            /\ \A i, j \in DOMAIN all :
                   i < j => C39_First(m_in.tickers, all[i]) < C39_First(m_in.tickers, all[j])
            /\ \A k \in DOMAIN m_out.chunks : m_out.chunks[k] # <<>>
            /\ Len(m_out.chunks) <= m_in.max_chunks
C39_Witness ==
    /\ MetricDone("split_tickers")
    /\ Len(m_in.tickers) = MaxSplitLen
    /\ m_in.tickers[1] = m_in.tickers[3]
    /\ Cardinality(Range(m_in.tickers)) = 3
    /\ m_in.preferred_chunk_size = 1 /\ m_in.max_chunks = 2
    /\ Len(m_out.chunks) = 2

\* C40: for a currency X other than GBP and GBp, the rate X to GBp is 100
\* times the rate X to GBP and the rate GBp to X is a hundredth of the rate
\* GBP to X, the provider answering alike; GBP to GBp is 100 and GBp to GBP
\* 0.01; between equal currencies the rate is 1.0 and the provider is not asked
C40_Times(rate, n, d) == [num |-> rate.num * n, den |-> rate.den * d]
C40_PenceConsistent ==
    MetricDone("get_fx_conversion_rate") =>
        LET from == m_in.from_currency
            to == m_in.to_currency
            pounds_from == get_fx_conversion_rate("GBP", to, m_in.fx_data)
            to_pounds == get_fx_conversion_rate(from, "GBP", m_in.fx_data)
        IN  /\ (from = "GBp" /\ to \notin {"GBP", "GBp"}) =>
                   /\ m_out.kind = pounds_from.kind
                   /\ m_out.kind = "return" =>
                          FracEq(m_out.rate, C40_Times(pounds_from.rate, 1, 100))
            /\ (to = "GBp" /\ from \notin {"GBP", "GBp"}) =>
                   /\ m_out.kind = to_pounds.kind
                   /\ m_out.kind = "return" =>
                          FracEq(m_out.rate, C40_Times(to_pounds.rate, 100, 1))
            /\ (from = "GBP" /\ to = "GBp") =>
                   m_out.kind = "return" /\ FracEq(m_out.rate, [num |-> 100, den |-> 1])
            /\ (from = "GBp" /\ to = "GBP") =>
                   m_out.kind = "return" /\ FracEq(m_out.rate, [num |-> 1, den |-> 100])
            /\ from = to =>
                   /\ m_out.kind = "return"
                   /\ FracEq(m_out.rate, [num |-> 1, den |-> 1])
                   /\ m_out.asked = <<>>

====
